---------------------------- MODULE Spec2Model ----------------------------
(***************************************************************************)
(* A model of the iBeekeeper bookkeeping application: the relational rows  *)
(* (users, transactions, codings, documents, the transaction/document      *)
(* association, per-user settings), the upload tree on disk, the           *)
(* duplicate detector, and one action per route handler.                   *)
(*                                                                         *)
(* Representation.  Text is a sequence of one-character strings; a         *)
(* description is a sequence of words (the whitespace-separated tokens of  *)
(* the Python string).  Amounts given to the detector are integers in      *)
(* tenths of a cent, stored amounts are integers in cents (the column has  *)
(* scale 2).  A floating point confidence c is the integer c * ConfUnit.   *)
(* An absent optional text (None or '') is the empty text.                 *)
(***************************************************************************)
EXTENDS Integers, Sequences, FiniteSets, TLC

\* ------------------------------------------------------------------ bounds
MaxTxns == 2
MaxDocs == 1
\* data rows of an imported file
MaxRows == 2
\* documents of the dashboard specification
MaxLinked == 2
\* successful logins of one account (its last_login is their count)
MaxLogins == 2

\* -------------------------------------------------------- program constants
CandidateLimit == 20
SimUnit == 27720
ConfUnit == 200 * SimUnit
Pct == ConfUnit \div 100

\* ------------------------------------------------------------ text helpers
Max2(a, b) == IF a >= b THEN a ELSE b
Min2(a, b) == IF a <= b THEN a ELSE b
AbsInt(x) == IF x < 0 THEN 0 - x ELSE x

UpperOf == [c \in {"r", "x"} |-> IF c = "r" THEN "R" ELSE "X"]
LowerOf == [c \in {"P", "R", "A"} |-> IF c = "P" THEN "p" ELSE IF c = "R" THEN "r" ELSE "a"]

\* str.lower() / str.upper(), one character at a time
LowerChar(c) == IF c \in DOMAIN LowerOf THEN LowerOf[c] ELSE c
UpperChar(c) == IF c \in DOMAIN UpperOf THEN UpperOf[c] ELSE c
LowerText(s) == [i \in 1..Len(s) |-> LowerChar(s[i])]
UpperText(s) == [i \in 1..Len(s) |-> UpperChar(s[i])]

RECURSIVE JoinWords(_)
\* ' '.join(words)
JoinWords(ws) ==
    IF ws = <<>> THEN <<>>
    ELSE IF Len(ws) = 1 THEN ws[1]
    ELSE ws[1] \o <<" ">> \o JoinWords(Tail(ws))

RECURSIVE StripSpaces(_)
\* re.sub(r'\s+', '', s)
StripSpaces(s) ==
    IF s = <<>> THEN <<>>
    ELSE IF s[1] = " " THEN StripSpaces(Tail(s))
    ELSE <<s[1]>> \o StripSpaces(Tail(s))

HasPrefix(w, p) == Len(w) >= Len(p) /\ SubSeq(w, 1, Len(p)) = p

W_payment == <<"p", "a", "y", "m", "e", "n", "t">>
W_transfer == <<"t", "r", "a", "n", "s", "f", "e", "r">>
W_debit == <<"d", "e", "b", "i", "t">>
W_credit == <<"c", "r", "e", "d", "i", "t">>
W_ref == <<"r", "e", "f">>
W_transaction == <<"t", "r", "a", "n", "s", "a", "c", "t", "i", "o", "n">>
W_id == <<"i", "d">>
BankingWords == {W_payment, W_transfer, W_debit, W_credit}

RECURSIVE RemoveBankingWords(_)
\* re.sub(r'\b(payment|transfer|debit|credit)\b', '', s), on the words of s
RemoveBankingWords(ws) ==
    IF ws = <<>> THEN <<>>
    ELSE IF ws[1] \in BankingWords THEN RemoveBankingWords(Tail(ws))
    ELSE <<ws[1]>> \o RemoveBankingWords(Tail(ws))

RECURSIVE RemoveRefs(_)
\* re.sub(r'\b(ref\s*:?\s*\w+)\b', '', s): "ref" and the word after it, or a
\* word that begins with "ref"
RemoveRefs(ws) ==
    IF ws = <<>> THEN <<>>
    ELSE IF HasPrefix(ws[1], W_ref) /\ Len(ws[1]) > 3 THEN RemoveRefs(Tail(ws))
    ELSE IF ws[1] = W_ref /\ Len(ws) >= 2 THEN RemoveRefs(Tail(Tail(ws)))
    ELSE <<ws[1]>> \o RemoveRefs(Tail(ws))

RECURSIVE RemoveTransactionIds(_)
\* re.sub(r'\b(transaction\s*id\s*:?\s*\w+)\b', '', s)
RemoveTransactionIds(ws) ==
    IF ws = <<>> THEN <<>>
    ELSE IF /\ ws[1] = W_transaction
            /\ Len(ws) >= 2
            /\ HasPrefix(ws[2], W_id)
            /\ Len(ws[2]) > 2
         THEN RemoveTransactionIds(Tail(Tail(ws)))
    ELSE IF ws[1] = W_transaction /\ Len(ws) >= 3 /\ ws[2] = W_id
         THEN RemoveTransactionIds(Tail(Tail(Tail(ws))))
    ELSE <<ws[1]>> \o RemoveTransactionIds(Tail(ws))

\* TransactionDeduplicator.normalize_description
normalize_description(description) ==
    IF description = <<>> THEN <<>>
    ELSE LET lowered == [i \in 1..Len(description) |-> LowerText(description[i])]
         IN RemoveTransactionIds(RemoveRefs(RemoveBankingWords(lowered)))

\* TransactionDeduplicator.normalize_reference
normalize_reference(reference) ==
    IF reference = <<>> THEN <<>>
    ELSE StripSpaces(UpperText(reference))

\* TransactionDeduplicator.normalize_amount: Decimal.quantize(0.01, ROUND_HALF_UP),
\* from tenths of a cent to cents, halves away from zero
normalize_amount(mills) ==
    IF mills >= 0 THEN (mills + 5) \div 10 ELSE 0 - ((0 - mills + 5) \div 10)

\* ------------------------------------------------- difflib.SequenceMatcher
RECURSIVE RunLen(_, _, _, _, _, _)
RunLen(a, b, i, j, ahi, bhi) ==
    IF i > ahi \/ j > bhi THEN 0
    ELSE IF a[i] # b[j] THEN 0
    ELSE 1 + RunLen(a, b, i + 1, j + 1, ahi, bhi)

\* SequenceMatcher.find_longest_match: the longest common block of
\* a[alo..ahi] and b[blo..bhi]; of the longest, the one starting earliest in
\* a, and of those the one starting earliest in b.
find_longest_match(a, b, alo, ahi, blo, bhi) ==
    LET blocks == {<<i, j, RunLen(a, b, i, j, ahi, bhi)>> : i \in alo..ahi, j \in blo..bhi}
        better(p, q) == \/ p[3] > q[3]
                        \/ /\ p[3] = q[3]
                           /\ \/ p[1] < q[1]
                              \/ p[1] = q[1] /\ p[2] <= q[2]
    IN IF alo > ahi \/ blo > bhi THEN <<alo, blo, 0>>
       ELSE CHOOSE p \in blocks : \A q \in blocks : better(p, q)

RECURSIVE MatchingChars(_, _, _, _, _, _)
\* SequenceMatcher.get_matching_blocks around the longest block m: m, the
\* blocks to its left and the blocks to its right
MatchingAround(a, b, alo, ahi, blo, bhi, m) ==
    IF m[3] = 0 THEN 0
    ELSE m[3] + MatchingChars(a, b, alo, m[1] - 1, blo, m[2] - 1)
              + MatchingChars(a, b, m[1] + m[3], ahi, m[2] + m[3], bhi)

\* the total size of SequenceMatcher.get_matching_blocks
MatchingChars(a, b, alo, ahi, blo, bhi) ==
    MatchingAround(a, b, alo, ahi, blo, bhi, find_longest_match(a, b, alo, ahi, blo, bhi))

\* SequenceMatcher(None, a, b).ratio() in units of 1/SimUnit
Ratio(a, b) ==
    LET total == Len(a) + Len(b)
    IN IF total = 0 THEN SimUnit
       ELSE (2 * MatchingChars(a, b, 1, Len(a), 1, Len(b)) * SimUnit) \div total

\* TransactionDeduplicator.calculate_description_similarity
calculate_description_similarity(desc1, desc2) ==
    IF desc1 = <<>> \/ desc2 = <<>> THEN 0
    ELSE Ratio(JoinWords(normalize_description(desc1)),
               JoinWords(normalize_description(desc2)))

RECURSIVE Strip(_)
\* str.strip()
Strip(s) ==
    IF s = <<>> THEN <<>>
    ELSE IF s[1] = " " THEN Strip(Tail(s))
    ELSE IF s[Len(s)] = " " THEN Strip(SubSeq(s, 1, Len(s) - 1))
    ELSE s

\* Python truthiness of an optional text.  None and '' are both false and
\* are both held as the empty text.
Truthy(s) == s # <<>>

\* a is a substring of b ("a in b")
IsSubstring(a, b) ==
    \E i \in 0..(Len(b) - Len(a)) : SubSeq(b, i + 1, i + Len(a)) = a

\* ------------------------------------------------------ confidence scoring
\* The score is a binary floating point sum.  It is held here as twice the
\* exact sum of the four parts plus a rounding term in {-1, 0, 1}: over
\* ratios of texts of total length <= 12 the float sum differs from the
\* exact sum, at one of the thresholds the callers use (0.5, 0.75, 0.8,
\* 0.85), in exactly the cases listed (parts in hundredths):
\* 0.3 + 0.35 is 0.6499999999999999, 0.1 + 0.2 + 0.15 + 0.05 is
\* 0.5000000000000001.
FloatRounding(amountPart, descPart, refPart, payeePart) ==
    LET parts == <<amountPart, descPart, refPart, payeePart>>
        h(a, d, r, p) == <<a * Pct, d * Pct, r * Pct, p * Pct>>
    IN IF parts \in {h(10, 20, 15, 5), h(11, 20, 15, 4), h(15, 15, 15, 5), h(15, 20, 10, 5)}
       THEN 1
       ELSE IF parts \in {h(30, 35, 0, 10), h(30, 35, 10, 0), h(30, 35, 10, 5),
                          h(30, 35, 10, 10), h(30, 35, 15, 0)}
       THEN 0 - 1
       ELSE 0

\* amount matching (40% weight); amounts in cents
AmountPart(normalized_amount, candidate_amount) ==
    LET amount_diff == AbsInt(normalized_amount - candidate_amount)
    IN IF amount_diff = 0 THEN 40 * Pct
       ELSE IF amount_diff <= 1 THEN 30 * Pct
       ELSE Max2(0, 20 - amount_diff) * Pct

\* the credit for a description similarity: all of it from
\* DESCRIPTION_SIMILARITY_THRESHOLD up, a share below
DescriptionCredit(desc_similarity) ==
    IF desc_similarity * 100 >= 85 * SimUnit THEN 35 * Pct
    ELSE (desc_similarity * 25 * Pct) \div SimUnit

\* description matching (35% weight)
DescriptionPart(candidate_description, normalized_desc) ==
    IF candidate_description = <<>> THEN 0
    ELSE DescriptionCredit(
             calculate_description_similarity(candidate_description, normalized_desc))

\* payment reference matching (15% weight)
ReferencePart(candidate_reference, normalized_ref) ==
    IF normalized_ref # <<>> /\ Truthy(candidate_reference)
    THEN LET candidate_ref == normalize_reference(candidate_reference)
         IN IF candidate_ref = normalized_ref THEN 15 * Pct
            ELSE IF IsSubstring(normalized_ref, candidate_ref)
                    \/ IsSubstring(candidate_ref, normalized_ref) THEN 10 * Pct
            ELSE 0
    ELSE 0

\* payee name matching (10% weight)
PayeePart(candidate_payee, payee_name) ==
    IF Truthy(payee_name) /\ Truthy(candidate_payee)
    THEN (Ratio(Strip(LowerText(payee_name)), Strip(LowerText(candidate_payee)))
          * 10 * Pct) \div SimUnit
    ELSE 0

\* confidence += ... of the four parts, then min(confidence, 1.0)
SumOfParts(amountPart, descPart, refPart, payeePart) ==
    Min2(amountPart + descPart + refPart + payeePart
             + FloatRounding(amountPart, descPart, refPart, payeePart),
         ConfUnit)

\* TransactionDeduplicator._calculate_duplicate_confidence
calculate_duplicate_confidence(candidate, normalized_amount, normalized_desc, normalized_ref, payee_name) ==
    SumOfParts(AmountPart(normalized_amount, candidate.amount),
               DescriptionPart(candidate.description, normalized_desc),
               ReferencePart(candidate.payment_reference, normalized_ref),
               PayeePart(candidate.payee_name, payee_name))

\* ------------------------------------------------------ candidate search
\* the candidate query without its user filter
Candidates_AllUsers(rows, date, amount, exclude_id, user_id) ==
    LET normalized_amount == normalize_amount(amount)
        amount_tolerance == normalized_amount * 5
        min_amount == normalized_amount * 100 - amount_tolerance
        max_amount == normalized_amount * 100 + amount_tolerance
        query == {t \in rows :
                    /\ t.date = date
                    /\ min_amount <= t.amount * 100
                    /\ t.amount * 100 <= max_amount
                    /\ (exclude_id # 0 => t.id # exclude_id)}
    IN {t \in query : Cardinality({s \in query : s.id > t.id}) < CandidateLimit}

\* The rows that find_potential_duplicates scores: same date, amount within
\* the band [n - 0.05 n, n + 0.05 n] (compared in units of 1/10000), the
\* user's when user_id is given (0 is None), not exclude_id (0 and None are
\* false), the CandidateLimit most recently created (ids grow with creation
\* time).
Candidates(rows, date, amount, exclude_id, user_id) ==
    LET normalized_amount == normalize_amount(amount)
        amount_tolerance == normalized_amount * 5
        min_amount == normalized_amount * 100 - amount_tolerance
        max_amount == normalized_amount * 100 + amount_tolerance
        query == {t \in rows :
                    /\ t.date = date
                    /\ min_amount <= t.amount * 100
                    /\ t.amount * 100 <= max_amount
                    /\ (user_id # 0 => t.user_id = user_id)
                    /\ (exclude_id # 0 => t.id # exclude_id)}
    IN {t \in query : Cardinality({s \in query : s.id > t.id}) < CandidateLimit}

RECURSIVE SortByConfidence(_)
\* highest score first; equal scores keep the query's order (newest first)
SortByConfidence(scored) ==
    IF scored = {} THEN <<>>
    ELSE LET top == CHOOSE p \in scored : \A q \in scored :
                        \/ p.confidence > q.confidence
                        \/ p.confidence = q.confidence /\ p.transaction.id >= q.transaction.id
         IN <<top>> \o SortByConfidence(scored \ {top})

\* TransactionDeduplicator.find_potential_duplicates
find_potential_duplicates(rows, date, amount, description, payment_reference, payee_name, exclude_id, user_id) ==
    LET normalized_amount == normalize_amount(amount)
        normalized_desc == normalize_description(description)
        normalized_ref == normalize_reference(payment_reference)
        scored == {[transaction |-> c,
                    confidence |-> calculate_duplicate_confidence(
                        c, normalized_amount, normalized_desc, normalized_ref,
                        payee_name)] :
                      c \in Candidates(rows, date, amount, exclude_id, user_id)}
        potential == {p \in scored : p.confidence > 50 * Pct}
    IN SortByConfidence(potential)

\* the decision of is_duplicate over the sorted potential duplicates
BestIfAbove(potential_duplicates, confidence_threshold) ==
    IF potential_duplicates # <<>>
       /\ potential_duplicates[1].confidence >= confidence_threshold
    THEN <<TRUE, potential_duplicates[1].transaction.id,
           potential_duplicates[1].confidence>>
    ELSE <<FALSE, 0, 0>>

\* TransactionDeduplicator.is_duplicate: <<is_duplicate, id of the existing
\* transaction or 0, confidence>>
is_duplicate(rows, date, amount, description, payment_reference, payee_name, exclude_id, confidence_threshold, user_id) ==
    BestIfAbove(find_potential_duplicates(rows, date, amount, description,
                                          payment_reference, payee_name, exclude_id, user_id),
                confidence_threshold)

\* ------------------------------------------------------------ input pools
UserIds == {1, 2}
TxnIds == 1..MaxTxns
DocIds == 1..MaxDocs

W_rent == <<"r", "e", "n", "t">>
W_Rent == <<"R", "e", "n", "t">>
RefR1 == <<"R", "1">>
\* Config.CATEGORIES
CATEGORIES == {"Revenue", "Expense"}
\* the members of InputValidator.VALID_CURRENCIES the inputs use
VALID_CURRENCIES == {"USD", "EUR"}

\* A submitted transaction: amount in tenths of a cent.
Txn(date, amount, currency, description, reference, payee, merchant) ==
    [date |-> date, amount |-> amount, currency |-> currency,
     description |-> description, payment_reference |-> reference,
     payee_name |-> payee, merchant |-> merchant]

NoInput == Txn(0, 0, "", <<>>, <<>>, <<>>, <<>>)
InRent == Txn(1, 100000, "USD", <<W_rent>>, <<>>, <<>>, <<>>)
InRentRef == Txn(1, 100000, "USD", <<W_rent>>, RefR1, <<>>, <<>>)
InOutflow == Txn(1, 0 - 50000, "USD", <<W_rent>>, RefR1, <<>>, <<>>)
InPayment == Txn(1, 100000, "EUR", <<W_payment>>, RefR1, <<>>, <<>>)
InNear == Txn(1, 100010, "USD", <<W_Rent, W_payment>>, RefR1, <<>>, <<>>)
InLater == Txn(2, 100000, "USD", <<W_rent>>, RefR1, <<>>, <<>>)
InLowerEur == Txn(2, 20000, "eur", <<W_rent>>, <<>>, <<>>, <<>>)
InBadAmount == Txn(1, 100005, "USD", <<W_rent>>, <<>>, <<>>, <<>>)

\* inputs of the deduplication specification and of the management one
DedupInputs == {InRent, InRentRef, InOutflow, InPayment, InNear, InLater}
DedupForms == {InRentRef, InNear, InOutflow}
ManageInputs == {InOutflow}
ManageForms == {InNear}
InRentShop == Txn(1, 100000, "USD", <<W_rent>>, RefR1, <<>>, <<"s">>)
InRentMart == Txn(1, 100000, "USD", <<W_rent>>, RefR1, <<>>, <<"m">>)
\* records the bank returns to a sync, and the lists of them
SyncRecords == {InRentRef, InRentShop, InRentMart, InOutflow}
SyncLists == UNION {[1..n -> SyncRecords] : n \in 0..MaxRows}
\* data rows of the imported files, and the files
CsvRows == {InRent, InNear, InPayment, InLowerEur, InBadAmount}
CsvFiles == UNION {[1..n -> CsvRows] : n \in 0..MaxRows}

\* ------------------------------------------------------------------ state
VARIABLES
    users,          \* ids of the rows of the users table
    accounts,       \* their email, password digest, is_active and last_login
    logged,         \* users with an authenticated session
    transactions,   \* rows of Transaction
    codes,          \* rows of TransactionCode
    documents,      \* rows of Document
    links,          \* rows of transaction_documents: <<transaction_id, document_id>>
    settings,       \* rows of AppSettings
    disk,           \* files in the upload tree: [path, uploader]
    resp,           \* the last request and its response
    inflight        \* per worker process, the ingestion request it is handling

vars == <<users, accounts, logged, transactions, codes, documents, links, settings, disk, resp,
          inflight>>
db == <<users, accounts, transactions, codes, documents, links, settings>>

MaxOf(S) == CHOOSE x \in S : \A y \in S : x >= y
\* the next INTEGER PRIMARY KEY of the default SQLite database: max(rowid) + 1
NextId(rows) == IF rows = {} THEN 1 ELSE MaxOf({r.id : r \in rows}) + 1

\* Model.query.filter_by(id=..., user_id=current_user.id)
OwnRow(rows, id, u) == {r \in rows : r.id = id /\ r.user_id = u}
\* Transaction.documents
DocumentsOf(t) == {d \in documents : <<t.id, d.id>> \in links}
\* Transaction.transaction_code
CodesOf(t) == {c \in codes : c.transaction_id = t.id}
\* Transaction.is_coded
is_coded(t) == CodesOf(t) # {}
\* the display read from the stored status column instead of the coding row
status_display_Stored(t) == IF t.status = "coded" THEN "Reconciled" ELSE "Unreconciled"
\* Transaction.status_display
status_display(t) == IF is_coded(t) THEN "Reconciled" ELSE "Unreconciled"

PathsOf(docs) == {d.file_path : d \in docs}
\* os.remove of each path that exists
RemoveFiles(files, paths) == {f \in files : f.path \notin paths}
\* shutil.rmtree(User.upload_path): everything under uploads/users/<folder>
RemoveUserTree(files, u) == {f \in files : ~(f.path.root = "users" /\ f.path.owner = u)}

\* FileService.save_uploaded_file: <upload_root>/pdfs/<year>/<month>/<unique name>
SavePath(name) == [root |-> "pdfs", owner |-> 0, name |-> name]
UsedNames == {f.path.name : f \in disk} \cup {d.file_path.name : d \in documents}
FreshName == CHOOSE n \in 1..(Cardinality(UsedNames) + 1) : n \notin UsedNames

\* werkzeug generate_password_hash: a salted digest, which
\* check_password_hash accepts for the password it was made from only
generate_password_hash(password) == <<"pbkdf2", password>>
check_password_hash(pwhash, password) == pwhash = <<"pbkdf2", password>>

\* a row of User as auth.register creates it
Account(email, password) ==
    [email |-> email, password_hash |-> generate_password_hash(password),
     is_active |-> TRUE, last_login |-> 0]
EmailOf == [u \in UserIds |-> IF u = 1 THEN "a@x.io" ELSE "b@x.io"]

Response == [op |-> "none", uid |-> 0, tid |-> 0, did |-> 0, ids |-> {},
             input |-> NoInput, status |-> "", n |-> 0, match |-> 0,
             confidence |-> 0, scored |-> {}, rows |-> <<>>, skipped |-> 0,
             errors |-> 0, args |-> <<>>, totals |-> <<>>, target |-> <<>>]

\* the worker processes serving requests, and a worker between requests
Workers == {1, 2}

Idle == [pc |-> "idle", uid |-> 0, input |-> NoInput, valid |-> FALSE,
         dup |-> <<FALSE, 0, 0>>]

Init ==
    /\ users = UserIds
    /\ accounts = [u \in UserIds |-> Account(EmailOf[u], "password1")]
    /\ logged = UserIds
    /\ transactions = {}
    /\ codes = {}
    /\ documents = {}
    /\ links = {}
    /\ settings = {}
    /\ disk = {}
    /\ resp = Response
    /\ inflight = [w \in Workers |-> Idle]

\* InputValidator.validate_currency_code: the code stripped and upper-cased
\* (it is then required to be a member of VALID_CURRENCIES)
UpperCurrency == [c \in {"usd", "eur"} |-> IF c = "usd" THEN "USD" ELSE "EUR"]
validate_currency_code(currency) ==
    IF currency \in DOMAIN UpperCurrency THEN UpperCurrency[currency] ELSE currency

\* InputValidator.validate_amount: at most two decimal places
validate_amount_ok(mills) == mills % 10 = 0
\* InputValidator.validate_transaction_data / the field validators of edit;
\* textOk: no text field is too long or holds dangerous content
ValidData(inp, textOk) ==
    /\ textOk
    /\ inp.description # <<>>
    /\ validate_amount_ok(inp.amount)
    /\ validate_currency_code(inp.currency) \in VALID_CURRENCIES

NewRow(rows, u, inp, status) ==
    [id |-> NextId(rows), user_id |-> u, date |-> inp.date,
     amount |-> inp.amount \div 10, currency |-> validate_currency_code(inp.currency),
     description |-> inp.description, payment_reference |-> inp.payment_reference,
     payee_name |-> inp.payee_name, merchant |-> inp.merchant, status |-> status]

NewTransaction(u, inp, status) == NewRow(transactions, u, inp, status)

\* ---------------------------------------------------------------- actions
Reply(op, u, status) == [Response EXCEPT !.op = op, !.uid = u, !.status = status]

\* routes/main.py handle_single_transaction_upload
handle_single_transaction_upload(u, inp, textOk) ==
    /\ u \in logged
    /\ \E dup \in {is_duplicate(transactions, inp.date, inp.amount, inp.description,
                                inp.payment_reference, inp.payee_name, 0, 80 * Pct, u)} :
       LET r == [Reply("single_upload", u, "ok") EXCEPT !.input = inp]
       IN IF ~ValidData(inp, textOk)
          THEN /\ resp' = [r EXCEPT !.status = "invalid"]
               /\ UNCHANGED transactions
          ELSE IF dup[1]
          THEN /\ resp' = [r EXCEPT !.status = "duplicate", !.match = dup[2],
                                    !.confidence = dup[3]]
               /\ UNCHANGED transactions
          ELSE /\ NextId(transactions) <= MaxTxns
               /\ transactions' = transactions \cup {NewTransaction(u, inp, "unreconciled")}
               /\ resp' = [r EXCEPT !.tid = NextId(transactions)]
    /\ UNCHANGED <<inflight, users, accounts, logged, codes, documents, links, settings, disk>>

\* routes/transactions.py transaction_detail
transaction_detail(u, tid) ==
    /\ u \in logged
    /\ resp' = [Reply("detail", u,
                      IF OwnRow(transactions, tid, u) = {} THEN "not_found" ELSE "ok")
                EXCEPT !.tid = tid]
    /\ UNCHANGED <<inflight, users, accounts, logged, transactions, codes, documents, links, settings, disk>>

\* routes/transactions.py upload_document; fileOk: both file validations
\* pass; original_filename: secure_filename of the name the browser sent,
\* stored as Document.filename while the file gets a unique name on disk
upload_named_document(u, tid, fileOk, original_filename) ==
    /\ u \in logged
    /\ LET r == [Reply("upload_document", u, "ok") EXCEPT !.tid = tid]
           path == SavePath(FreshName)
           document == [id |-> NextId(documents), user_id |-> u, file_path |-> path,
                        filename |-> original_filename]
       IN IF OwnRow(transactions, tid, u) = {}
          THEN /\ resp' = [r EXCEPT !.status = "not_found"]
               /\ UNCHANGED <<documents, links, disk>>
          ELSE IF ~fileOk
          THEN /\ resp' = [r EXCEPT !.status = "invalid"]
               /\ UNCHANGED <<documents, links, disk>>
          ELSE /\ disk' = disk \cup {[path |-> path, uploader |-> u]}
               /\ documents' = documents \cup {document}
               /\ links' = links \cup {<<tid, document.id>>}
               /\ resp' = [r EXCEPT !.did = document.id]
    /\ UNCHANGED <<inflight, users, accounts, logged, transactions, codes, settings>>

\* the upload of a file named "a"
upload_document(u, tid, fileOk) == upload_named_document(u, tid, fileOk, <<"a">>)

\* code_transaction adding a coding row whether or not one exists
code_transaction_AlwaysAdd(u, tid, category) ==
    /\ u \in logged
    /\ LET r == [Reply("code", u, "ok") EXCEPT !.tid = tid]
       IN IF OwnRow(transactions, tid, u) = {}
          THEN /\ resp' = [r EXCEPT !.status = "not_found"]
               /\ UNCHANGED <<transactions, codes>>
          ELSE IF category \notin CATEGORIES
          THEN /\ resp' = [r EXCEPT !.status = "invalid"]
               /\ UNCHANGED <<transactions, codes>>
          ELSE \E t \in OwnRow(transactions, tid, u) :
               /\ NextId(codes) <= MaxTxns
               /\ codes' = codes \cup {[id |-> NextId(codes), user_id |-> u,
                                        transaction_id |-> tid,
                                        category_name |-> category]}
               /\ transactions' = (transactions \ {t}) \cup {[t EXCEPT !.status = "coded"]}
               /\ resp' = r
    /\ UNCHANGED <<inflight, users, accounts, logged, documents, links, settings, disk>>

\* routes/transactions.py code_transaction
code_transaction(u, tid, category) ==
    /\ u \in logged
    /\ LET r == [Reply("code", u, "ok") EXCEPT !.tid = tid]
       IN IF OwnRow(transactions, tid, u) = {}
          THEN /\ resp' = [r EXCEPT !.status = "not_found"]
               /\ UNCHANGED <<transactions, codes>>
          ELSE IF category \notin CATEGORIES
          THEN /\ resp' = [r EXCEPT !.status = "invalid"]
               /\ UNCHANGED <<transactions, codes>>
          ELSE \E t \in OwnRow(transactions, tid, u) :
               /\ IF CodesOf(t) # {}
                  THEN \E c \in CodesOf(t) :
                         codes' = (codes \ {c}) \cup {[c EXCEPT !.category_name = category]}
                  ELSE /\ NextId(codes) <= MaxTxns
                       /\ codes' = codes \cup {[id |-> NextId(codes), user_id |-> u,
                                                transaction_id |-> tid,
                                                category_name |-> category]}
               /\ transactions' = (transactions \ {t}) \cup {[t EXCEPT !.status = "coded"]}
               /\ resp' = r
    /\ UNCHANGED <<inflight, users, accounts, logged, documents, links, settings, disk>>

\* routes/transactions.py remove_document
remove_document(u, tid, did) ==
    /\ u \in logged
    /\ LET r == [Reply("remove_document", u, "ok") EXCEPT !.tid = tid, !.did = did]
       IN IF OwnRow(transactions, tid, u) = {} \/ OwnRow(documents, did, u) = {}
          THEN /\ resp' = [r EXCEPT !.status = "not_found"]
               /\ UNCHANGED <<documents, links, disk>>
          ELSE \E d \in OwnRow(documents, did, u) :
               /\ links' = {l \in links : l[2] # did}
               /\ disk' = RemoveFiles(disk, {d.file_path})
               /\ documents' = documents \ {d}
               /\ resp' = r
    /\ UNCHANGED <<inflight, users, accounts, logged, transactions, codes, settings>>

\* routes/transactions.py edit_transaction (POST)
edit_transaction(u, tid, form, textOk) ==
    /\ u \in logged
    /\ LET r == [Reply("edit", u, "ok") EXCEPT !.tid = tid, !.input = form]
       IN IF OwnRow(transactions, tid, u) = {}
          THEN /\ resp' = [r EXCEPT !.status = "not_found"]
               /\ UNCHANGED transactions
          ELSE IF ~ValidData(form, textOk)
          THEN /\ resp' = [r EXCEPT !.status = "invalid"]
               /\ UNCHANGED transactions
          ELSE \E t \in OwnRow(transactions, tid, u) :
               \E dup \in {is_duplicate(transactions, t.date, form.amount,
                                        form.description, form.payment_reference,
                                        form.payee_name, tid, 80 * Pct, u)} :
               LET new_amount == form.amount \div 10
                   key_fields_changed == \/ form.description # t.description
                                         \/ new_amount # t.amount
               IN IF key_fields_changed /\ dup[1]
                  THEN /\ resp' = [r EXCEPT !.status = "duplicate", !.match = dup[2],
                                            !.confidence = dup[3]]
                       /\ UNCHANGED transactions
                  ELSE /\ transactions' = (transactions \ {t}) \cup
                            {[t EXCEPT !.description = form.description,
                                       !.payee_name = form.payee_name,
                                       !.merchant = form.merchant,
                                       !.payment_reference = form.payment_reference,
                                       !.amount = new_amount,
                                       !.currency = validate_currency_code(form.currency)]}
                       /\ resp' = r
    /\ UNCHANGED <<inflight, users, accounts, logged, codes, documents, links, settings, disk>>

\* routes/transactions.py delete_transaction
delete_transaction(u, tid) ==
    /\ u \in logged
    /\ LET r == [Reply("delete", u, "ok") EXCEPT !.tid = tid]
       IN IF OwnRow(transactions, tid, u) = {}
          THEN /\ resp' = [r EXCEPT !.status = "not_found"]
               /\ UNCHANGED <<transactions, codes, documents, links, disk>>
          ELSE \E t \in OwnRow(transactions, tid, u) :
               LET docs == DocumentsOf(t)
               IN /\ disk' = RemoveFiles(disk, PathsOf(docs))
                  /\ IF Cardinality(CodesOf(t)) <= 1
                     THEN /\ documents' = documents \ docs
                          /\ links' = {l \in links :
                                         l[1] # tid /\ l[2] \notin {d.id : d \in docs}}
                          /\ codes' = codes \ CodesOf(t)
                          /\ transactions' = transactions \ {t}
                          /\ resp' = r
                     ELSE \* a second coding row would be set to NULL: IntegrityError
                          /\ resp' = [r EXCEPT !.status = "error"]
                          /\ UNCHANGED <<transactions, codes, documents, links>>
    /\ UNCHANGED <<inflight, users, accounts, logged, settings>>

\* routes/transactions.py reset_transaction_coding
reset_transaction_coding(u, tid) ==
    /\ u \in logged
    /\ LET r == [Reply("reset_coding", u, "ok") EXCEPT !.tid = tid]
       IN IF OwnRow(transactions, tid, u) = {}
          THEN /\ resp' = [r EXCEPT !.status = "not_found"]
               /\ UNCHANGED codes
          ELSE \E t \in OwnRow(transactions, tid, u) :
               IF CodesOf(t) # {}
               THEN /\ \E c \in CodesOf(t) : codes' = codes \ {c}
                    /\ resp' = r
               ELSE /\ resp' = [r EXCEPT !.status = "no_coding"]
                    /\ UNCHANGED codes
    /\ UNCHANGED <<inflight, users, accounts, logged, transactions, documents, links, settings, disk>>

\* the import of a row with the duplicate threshold lowered to 0.6
csv_row_Threshold60(u, acc, row) ==
    IF ~ValidData(row, TRUE) THEN [acc EXCEPT !.errors = @ + 1]
    ELSE IF is_duplicate(acc.rows, row.date, row.amount, row.description,
                         row.payment_reference, row.payee_name, 0, 60 * Pct, u)[1]
    THEN [acc EXCEPT !.skipped = @ + 1]
    ELSE [acc EXCEPT !.rows = @ \cup {NewRow(acc.rows, u, row, "unreconciled")},
                     !.new = @ + 1]

\* routes/main.py handle_csv_upload, one data row: the row is counted as an
\* error when it fails validation, skipped when it duplicates at threshold
\* 0.75 a row the session sees (the stored ones and those added so far, which
\* the query flushes), and added otherwise.
csv_row(u, acc, row) ==
    IF ~ValidData(row, TRUE) THEN [acc EXCEPT !.errors = @ + 1]
    ELSE IF is_duplicate(acc.rows, row.date, row.amount, row.description,
                         row.payment_reference, row.payee_name, 0, 75 * Pct, u)[1]
    THEN [acc EXCEPT !.skipped = @ + 1]
    ELSE [acc EXCEPT !.rows = @ \cup {NewRow(acc.rows, u, row, "unreconciled")},
                     !.new = @ + 1]

RECURSIVE csv_rows(_, _, _)
\* the loop over the data rows of the file
csv_rows(u, acc, rows) ==
    IF rows = <<>> THEN acc
    ELSE csv_rows(u, csv_row(u, acc, Head(rows)), Tail(rows))

\* routes/main.py handle_csv_upload; fileOk: a csv file is sent, passes the
\* file validation and has the required columns
handle_csv_upload(u, fileOk, rows) ==
    /\ u \in logged
    /\ \E out \in {csv_rows(u, [rows |-> transactions, new |-> 0, skipped |-> 0,
                                errors |-> 0], rows)} :
       LET r == [Reply("csv_upload", u, "ok") EXCEPT !.rows = rows]
       IN IF ~fileOk
          THEN /\ resp' = [r EXCEPT !.status = "invalid"]
               /\ UNCHANGED transactions
          ELSE /\ \A t \in out.rows : t.id <= MaxTxns
               /\ transactions' = out.rows
               /\ resp' = [r EXCEPT !.n = out.new, !.skipped = out.skipped,
                                    !.errors = out.errors]
    /\ UNCHANGED <<inflight, users, accounts, logged, codes, documents, links, settings, disk>>

\* Transaction.description / payee_name / merchant / payment_reference
\* ILIKE '%query%'
Ilike(t, query) ==
    \E text \in {JoinWords(t.description), t.payee_name, t.merchant, t.payment_reference} :
        IsSubstring(LowerText(query), LowerText(text))

\* SearchValidator.validate_status_filter / validate_category_filter
StatusFilters == {"all", "reconciled", "unreconciled"}
CategoryFilters == {"all", "revenue", "expense", "undefined"}

\* the query with an outer join where the code joins TransactionCode
ListQuery_OuterJoin(u, status, category, start, end, search) ==
    {t \in transactions :
       /\ t.user_id = u
       /\ IF status \in {"reconciled", "coded"} \/ category \in {"revenue", "expense"}
          THEN \A c \in CodesOf(t) :
                 /\ category = "revenue" => c.category_name = "Revenue"
                 /\ category = "expense" => c.category_name = "Expense"
          ELSE IF status \in {"unreconciled", "unmatched"} \/ category = "undefined"
          THEN CodesOf(t) = {}
          ELSE TRUE
       /\ start # 0 => t.date >= start
       /\ end # 0 => t.date <= end
       /\ search # <<>> => Ilike(t, search)}

\* routes/transactions.py list_transactions, the query of the else branch
\* (one page of 50 rows; the tables here hold fewer)
ListQuery(u, status, category, start, end, search) ==
    {t \in transactions :
       /\ t.user_id = u
       /\ IF status \in {"reconciled", "coded"} \/ category \in {"revenue", "expense"}
          THEN \E c \in CodesOf(t) :
                 /\ category = "revenue" => c.category_name = "Revenue"
                 /\ category = "expense" => c.category_name = "Expense"
          ELSE IF status \in {"unreconciled", "unmatched"} \/ category = "undefined"
          THEN CodesOf(t) = {}
          ELSE TRUE
       /\ start # 0 => t.date >= start
       /\ end # 0 => t.date <= end
       /\ search # <<>> => Ilike(t, search)}

\* routes/transactions.py list_transactions; a date of 0 and a search of <<>>
\* are absent parameters
list_transactions(u, status, category, start, end, search) ==
    /\ u \in logged
    /\ LET r == [Reply("list", u, "ok") EXCEPT !.args = <<status, category, start, end, search>>]
           valid == status \in StatusFilters /\ category \in CategoryFilters
           status_filter == IF valid THEN status ELSE "all"
           category_filter == IF valid THEN category ELSE "all"
           ordered == valid /\ ~(start # 0 /\ end # 0 /\ start > end)
           start_date_obj == IF ordered THEN start ELSE 0
           end_date_obj == IF ordered THEN end ELSE 0
           search_query == IF valid THEN search ELSE <<>>
       IN IF \/ status_filter \in {"unreconciled", "unmatched"}
                   /\ category_filter \in {"revenue", "expense"}
             \/ status_filter \in {"reconciled", "coded"} /\ category_filter = "undefined"
          THEN resp' = [r EXCEPT !.status = "info"]
          ELSE resp' = [r EXCEPT !.ids = {t.id : t \in ListQuery(u, status_filter,
                                             category_filter, start_date_obj,
                                             end_date_obj, search_query)}]
    /\ UNCHANGED <<inflight, db, logged, disk>>

\* the loop with expenses added as they are stored, sign included
add_to_totals_Signed(totals, t, category_name) ==
    LET seen == IF t.currency \in DOMAIN totals THEN totals[t.currency]
                ELSE [revenue |-> 0, expense |-> 0]
        grown == IF category_name = "Revenue"
                 THEN [seen EXCEPT !.revenue = @ + t.amount]
                 ELSE IF category_name = "Expense"
                 THEN [seen EXCEPT !.expense = @ + t.amount]
                 ELSE seen
    IN [c \in DOMAIN totals \cup {t.currency} |-> IF c = t.currency THEN grown ELSE totals[c]]

\* routes/reports.py reports, one turn of the loop over the (transaction,
\* code) pairs: the totals of the transaction's currency grow
add_to_totals(totals, t, category_name) ==
    LET seen == IF t.currency \in DOMAIN totals THEN totals[t.currency]
                ELSE [revenue |-> 0, expense |-> 0]
        grown == IF category_name = "Revenue"
                 THEN [seen EXCEPT !.revenue = @ + t.amount]
                 ELSE IF category_name = "Expense"
                 THEN [seen EXCEPT !.expense = @ + AbsInt(t.amount)]
                 ELSE seen
    IN [c \in DOMAIN totals \cup {t.currency} |-> IF c = t.currency THEN grown ELSE totals[c]]

RECURSIVE currency_totals(_, _)
\* the loop over the pairs of the join of Transaction and TransactionCode
currency_totals(totals, pairs) ==
    IF pairs = {} THEN totals
    ELSE LET p == CHOOSE q \in pairs : TRUE
         IN currency_totals(add_to_totals(totals, p[1], p[2].category_name), pairs \ {p})

\* routes/reports.py reports; start, end: the parsed range (the year to date
\* when a parameter is absent or malformed)
reports(u, start, end) ==
    /\ u \in logged
    /\ LET coded_transactions ==
             {<<t, c>> \in transactions \X codes :
                /\ c.transaction_id = t.id
                /\ t.user_id = u
                /\ t.date >= start
                /\ t.date <= end}
       IN resp' = [Reply("report", u, "ok") EXCEPT
                      !.args = <<start, end>>,
                      !.n = Cardinality(coded_transactions),
                      !.totals = currency_totals(<<>>, coded_transactions)]
    /\ UNCHANGED <<inflight, db, logged, disk>>

\* routes/main.py dashboard, the three counts: func.count(Transaction.id) over
\* the user's rows, and over the rows of the join of Transaction with its
\* documents, which has one row for each linked document
dashboard(u) ==
    /\ u \in logged
    /\ LET total_transactions == Cardinality({t \in transactions : t.user_id = u})
           reconciled_transactions ==
             Cardinality({<<t, d>> \in transactions \X documents :
                            t.user_id = u /\ <<t.id, d.id>> \in links})
       IN resp' = [Reply("dashboard", u, "ok") EXCEPT
                      !.args = <<total_transactions, reconciled_transactions,
                                 total_transactions - reconciled_transactions>>]
    /\ UNCHANGED <<inflight, db, logged, disk>>

\* request.form.get('email', '').strip().lower()
StripLower ==
    [e \in {"", "a@x.io", " A@X.io", "b@x.io", "b-at-x"} |->
       IF e = " A@X.io" THEN "a@x.io" ELSE e]
\* the email pattern of auth.register
email_pattern(email) == email \in {"a@x.io", "b@x.io"}
\* len(password) >= 8
LongEnough(password) == password \in {"password1", "password2"}
\* User.query.filter_by(email=email).first()
UserByEmail(email) == {u \in users : accounts[u].email = email}

\* url_for('main.dashboard'), and the next values a login is sent
Dashboard == <<"/", "d">>
NextPages == {<<>>, <<"/", "t">>, <<"/", "/", "e">>, <<"h", ":", "/", "/", "e">>}

\* the login that does not verify the password
login_AnyPassword(cur, email_in, password, next_page) ==
    /\ cur \in logged \cup {0}
    /\ LET email == StripLower[email_in]
           r == [Reply("login", 0, "ok") EXCEPT
                    !.args = <<cur, email_in, password, next_page>>]
       IN IF cur # 0
          THEN /\ resp' = [r EXCEPT !.status = "already", !.uid = cur, !.target = Dashboard]
               /\ UNCHANGED <<accounts, logged>>
          ELSE IF email = "" \/ password = ""
          THEN /\ resp' = [r EXCEPT !.status = "missing"]
               /\ UNCHANGED <<accounts, logged>>
          ELSE IF UserByEmail(email) # {}
          THEN \E u \in UserByEmail(email) :
                 IF ~accounts[u].is_active
                 THEN /\ resp' = [r EXCEPT !.status = "deactivated"]
                      /\ UNCHANGED <<accounts, logged>>
                 ELSE /\ accounts[u].last_login < MaxLogins
                      /\ logged' = logged \cup {u}
                      /\ accounts' = [accounts EXCEPT ![u].last_login = @ + 1]
                      /\ resp' = [r EXCEPT !.uid = u,
                                           !.target = IF next_page # <<>> /\ Head(next_page) = "/"
                                                      THEN next_page ELSE Dashboard]
          ELSE /\ resp' = [r EXCEPT !.status = "invalid"]
               /\ UNCHANGED <<accounts, logged>>
    /\ UNCHANGED <<inflight, users, transactions, codes, documents, links, settings, disk>>

\* routes/auth.py login (POST); cur: the user of the visitor's session, 0 for
\* an anonymous visitor; next_page: request.args.get('next'), <<>> if absent
login(cur, email_in, password, next_page) ==
    /\ cur \in logged \cup {0}
    /\ LET email == StripLower[email_in]
           r == [Reply("login", 0, "ok") EXCEPT
                    !.args = <<cur, email_in, password, next_page>>]
       IN IF cur # 0
          THEN /\ resp' = [r EXCEPT !.status = "already", !.uid = cur, !.target = Dashboard]
               /\ UNCHANGED <<accounts, logged>>
          ELSE IF email = "" \/ password = ""
          THEN /\ resp' = [r EXCEPT !.status = "missing"]
               /\ UNCHANGED <<accounts, logged>>
          ELSE IF \E u \in UserByEmail(email) :
                     check_password_hash(accounts[u].password_hash, password)
          THEN \E u \in UserByEmail(email) :
                 IF ~accounts[u].is_active
                 THEN /\ resp' = [r EXCEPT !.status = "deactivated"]
                      /\ UNCHANGED <<accounts, logged>>
                 ELSE /\ accounts[u].last_login < MaxLogins
                      /\ logged' = logged \cup {u}
                      /\ accounts' = [accounts EXCEPT ![u].last_login = @ + 1]
                      /\ resp' = [r EXCEPT !.uid = u,
                                           !.target = IF next_page # <<>> /\ Head(next_page) = "/"
                                                      THEN next_page ELSE Dashboard]
          ELSE /\ resp' = [r EXCEPT !.status = "invalid"]
               /\ UNCHANGED <<accounts, logged>>
    /\ UNCHANGED <<inflight, users, transactions, codes, documents, links, settings, disk>>

\* routes/auth.py logout
logout(u) ==
    /\ u \in logged
    /\ logged' = logged \ {u}
    /\ resp' = Reply("logout", u, "ok")
    /\ UNCHANGED <<inflight, db, disk>>

\* routes/auth.py register (POST) by an anonymous visitor; namesOk: both
\* names are given and at least 2 characters long
register(email_in, password, confirm_password, namesOk) ==
    /\ LET email == StripLower[email_in]
           id == IF users = {} THEN 1 ELSE MaxOf(users) + 1
           r == [Reply("register", 0, "ok") EXCEPT !.args = <<0, email_in, password>>]
       IN IF \/ email = "" \/ password = "" \/ confirm_password = ""
             \/ ~email_pattern(email)
             \/ UserByEmail(email) # {}
             \/ ~LongEnough(password)
             \/ password # confirm_password
             \/ ~namesOk
          THEN /\ resp' = [r EXCEPT !.status = "invalid"]
               /\ UNCHANGED <<users, accounts, logged>>
          ELSE /\ id \in UserIds
               /\ users' = users \cup {id}
               /\ accounts' = [x \in users \cup {id} |->
                                 IF x = id
                                 THEN [Account(email, password) EXCEPT !.last_login = 1]
                                 ELSE accounts[x]]
               /\ logged' = logged \cup {id}
               /\ resp' = [r EXCEPT !.uid = id, !.target = Dashboard]
    /\ UNCHANGED <<inflight, transactions, codes, documents, links, settings, disk>>

\* A Decimal as validate_amount sees it: sign, integer part and the digits
\* after the point as written (its exponent is minus their number)
Dec(neg, int, frac) == [neg |-> neg, int |-> int, frac |-> frac]
Digit(frac, i) == IF i <= Len(frac) THEN frac[i] ELSE 0
IsZero(d) == d.int = 0 /\ \A i \in 1..Len(d.frac) : d.frac[i] = 0
\* digits after the second one that are not zero
HasMore(d) == \E i \in 3..Len(d.frac) : d.frac[i] # 0
\* InputValidator.MAX_AMOUNT: 999999999.99
MAX_AMOUNT == Dec(FALSE, 999999999, <<9, 9>>)
\* abs(d) < MIN_AMOUNT (0.01), abs(d) > MAX_AMOUNT
BelowMin(d) == d.int = 0 /\ Digit(d.frac, 1) = 0 /\ Digit(d.frac, 2) = 0
AboveMax(d) ==
    \/ d.int > MAX_AMOUNT.int
    \/ d.int = MAX_AMOUNT.int /\ Digit(d.frac, 1) = 9 /\ Digit(d.frac, 2) = 9 /\ HasMore(d)

\* quantize(Decimal('0.01'), ROUND_HALF_UP)
RoundHalfUp(d) ==
    LET cents == 10 * Digit(d.frac, 1) + Digit(d.frac, 2) + (IF Digit(d.frac, 3) >= 5 THEN 1 ELSE 0)
    IN Dec(d.neg, d.int + cents \div 100, <<(cents % 100) \div 10, cents % 10>>)

\* the validation that rounds to two digits where the code rejects
validate_amount_Rounding(d) ==
    IF BelowMin(d) /\ ~IsZero(d) THEN [error |-> "at_least", value |-> d]
    ELSE IF AboveMax(d) THEN [error |-> "exceeds", value |-> d]
    ELSE [error |-> "", value |-> RoundHalfUp(d)]

\* InputValidator.validate_amount of a numeric input: the error raised, ""
\* for none, and the value returned
validate_amount(d) ==
    IF BelowMin(d) /\ ~IsZero(d) THEN [error |-> "at_least", value |-> d]
    ELSE IF AboveMax(d) THEN [error |-> "exceeds", value |-> d]
    ELSE IF Len(d.frac) > 2 THEN [error |-> "decimal_places", value |-> d]
    ELSE [error |-> "", value |-> d]

\* a call of InputValidator.validate_amount
call_validate_amount(d) ==
    /\ resp' = [Reply("validate_amount", 0, validate_amount(d).error) EXCEPT
                   !.args = <<d>>, !.target = <<validate_amount(d).value>>]
    /\ UNCHANGED <<inflight, db, logged, disk>>

\* AppSettings.get_user_setting
get_user_setting(rows, u, key, default) ==
    IF \E s \in rows : s.user_id = u /\ s.setting_key = key
    THEN (CHOOSE s \in rows : s.user_id = u /\ s.setting_key = key).setting_value
    ELSE default

\* routes/main.py sync_bank_transactions, the update of the matched row: each
\* of the three fields is set when the record has it and the row has not
BackFill(t, rec) ==
    [t EXCEPT !.payment_reference = IF rec.payment_reference # <<>> /\ @ = <<>>
                                    THEN rec.payment_reference ELSE @,
              !.payee_name = IF rec.payee_name # <<>> /\ @ = <<>>
                             THEN rec.payee_name ELSE @,
              !.merchant = IF rec.merchant # <<>> /\ @ = <<>> THEN rec.merchant ELSE @]

\* routes/main.py sync_bank_transactions, one record, given the verdict dup of
\* is_duplicate at threshold 0.85: the match is updated, or a row is added
\* with the column default status and the record's currency as received
sync_step(u, acc, rec, dup) ==
    IF dup[1]
    THEN [acc EXCEPT !.rows = {IF t.id = dup[2] THEN BackFill(t, rec) ELSE t : t \in @},
                     !.updated = @ + 1]
    ELSE [acc EXCEPT !.rows = @ \cup {[NewRow(acc.rows, u, rec, "unmatched")
                                         EXCEPT !.currency = rec.currency]},
                     !.new = @ + 1]

sync_record(u, acc, rec) ==
    sync_step(u, acc, rec,
              is_duplicate(acc.rows, rec.date, rec.amount, rec.description,
                           rec.payment_reference, rec.payee_name, 0, 85 * Pct, u))

RECURSIVE sync_records(_, _, _)
\* the loop over the records the bank client returned
sync_records(u, acc, records) ==
    IF records = <<>> THEN acc
    ELSE sync_records(u, sync_record(u, acc, Head(records)), Tail(records))

\* routes/main.py sync_bank_transactions; records: what get_transactions returns
sync_bank_transactions(u, records) ==
    /\ u \in logged
    /\ \E out \in {sync_records(u, [rows |-> transactions, new |-> 0, updated |-> 0],
                                 records)} :
       LET r == Reply("sync", u, "ok")
       IN IF get_user_setting(settings, u, "WISE_API_TOKEN", "") = ""
          THEN /\ resp' = [r EXCEPT !.status = "not_configured"]
               /\ UNCHANGED transactions
          ELSE /\ \A t \in out.rows : t.id <= MaxTxns
               /\ transactions' = out.rows
               /\ resp' = [r EXCEPT !.rows = records, !.n = out.new,
                                    !.skipped = out.updated]
    /\ UNCHANGED <<inflight, users, accounts, logged, codes, documents, links, settings, disk>>

\* The body both mass-delete routes share.  The selected transactions are
\* handled in the order the query returns them: the files of each are
\* unlinked, then the row is marked deleted.  Deleting a Transaction row
\* deletes its transaction_documents rows and sets transaction_id of its
\* TransactionCode to NULL (neither relationship cascades), which the NOT NULL
\* column refuses: the flush before the next lazy load, or the commit, raises
\* and the handler rolls back.
MassDelete(op, u, ids) ==
    /\ u \in logged
    /\ LET r == [Reply(op, u, "ok") EXCEPT !.ids = ids]
           selected == {t \in transactions : t.id \in ids /\ t.user_id = u}
           coded == {t \in selected : CodesOf(t) # {}}
           docsOf(ts) == UNION {DocumentsOf(t) : t \in ts}
       IN IF ids = {}
          THEN /\ resp' = [r EXCEPT !.status = "none_selected"]
               /\ UNCHANGED <<transactions, links, disk>>
          ELSE IF selected = {}
          THEN /\ resp' = [r EXCEPT !.status = "none_found"]
               /\ UNCHANGED <<transactions, links, disk>>
          ELSE IF coded = {}
          THEN /\ disk' = RemoveFiles(disk, PathsOf(docsOf(selected)))
               /\ transactions' = transactions \ selected
               /\ links' = {l \in links : l[1] \notin {t.id : t \in selected}}
               /\ resp' = [r EXCEPT !.n = Cardinality(selected)]
          ELSE \E k \in coded : \E before \in SUBSET (selected \ coded) :
               /\ disk' = RemoveFiles(disk, PathsOf(docsOf(before \cup {k})))
               /\ resp' = [r EXCEPT !.status = "error"]
               /\ UNCHANGED <<transactions, links>>
    /\ UNCHANGED <<inflight, users, accounts, logged, codes, documents, settings>>

\* routes/transactions.py mass_delete_transactions (POST /mass-delete)
mass_delete_transactions(u, ids) == MassDelete("mass_delete", u, ids)

\* routes/main.py mass_delete_transactions (POST /mass-delete-transactions)
main_mass_delete_transactions(u, ids) == MassDelete("mass_delete_main", u, ids)

\* AppSettings.set_user_setting: update the user's row for the key or add one
set_user_setting(rows, u, key, value) ==
    {s \in rows : ~(s.user_id = u /\ s.setting_key = key)}
        \cup {[user_id |-> u, setting_key |-> key, setting_value |-> value]}

\* routes/settings.py save_wise_settings, with a form that passes validation
save_wise_settings(u, is_sandbox) ==
    /\ u \in logged
    /\ settings' =
         set_user_setting(
           set_user_setting(
             set_user_setting(
               set_user_setting(settings, u, "WISE_API_URL", "https://api.wise.com"),
               u, "WISE_API_TOKEN", "token"),
             u, "WISE_ENTITY_NUMBER", "123"),
           u, "WISE_SANDBOX_MODE", IF is_sandbox THEN "true" ELSE "false")
    /\ resp' = Reply("save_settings", u, "ok")
    /\ UNCHANGED <<inflight, users, accounts, logged, transactions, codes, documents, links, disk>>

\* values handed to set_user_setting, tagged with their Python type
PyStr(s) == <<"str", s>>
PyBool(b) == <<"bool", IF b THEN "True" ELSE "False">>
PyInt(text) == <<"int", text>>
PyNone == <<"NoneType", "None">>
\* the SQL NULL of the setting_value column
NULL == "<NULL>"

\* AppSettings.set_value: json.dumps for dict, list, bool and PyNone, str(value)
\* for the rest
set_value(value) ==
    CASE value[1] = "bool" -> IF value = PyBool(TRUE) THEN "true" ELSE "false"
      [] value[1] = "NoneType" -> "null"
      [] OTHER -> value[2]

\* json.loads over the texts stored here: a JSON number, true, false or
\* null is parsed, every other text is not JSON
JsonNumbers == {"123", "0"}
IsJson(text) == text \in JsonNumbers \cup {"true", "false", "null"}
json_loads(text) ==
    CASE text \in JsonNumbers -> PyInt(text)
      [] text = "true" -> PyBool(TRUE)
      [] text = "false" -> PyBool(FALSE)
      [] OTHER -> PyNone

\* AppSettings.get_value
get_value(setting_value, default) ==
    IF setting_value = NULL THEN default
    ELSE IF IsJson(setting_value) THEN json_loads(setting_value)
    ELSE IF setting_value \in {"True", "TRUE"} THEN PyBool(TRUE)
    ELSE IF setting_value \in {"False", "FALSE"} THEN PyBool(FALSE)
    ELSE PyStr(setting_value)

RECURSIVE set_user_settings(_, _, _, _)
\* the successive AppSettings.set_user_setting calls of a request, each with
\* its own commit; written: how many of them complete
set_user_settings(rows, u, pairs, written) ==
    IF written = 0 \/ pairs = <<>> THEN rows
    ELSE set_user_settings(set_user_setting(rows, u, Head(pairs)[1], Head(pairs)[2]),
                           u, Tail(pairs), written - 1)

\* the URL pattern of save_wise_settings, and str.isdigit of the profile id
url_pattern(api_url) == api_url \in {"https://api.wise.com", "https://sandbox.wise.com"}
isdigit(text) == text \in {"123", "456", "0"}

\* routes/settings.py save_wise_settings with any form; fail_at: the write
\* (1..4) at which the database raises, 0 for none
save_wise_settings_form(u, form, fail_at) ==
    /\ u \in logged
    /\ LET r == [Reply("save_form", u, "ok") EXCEPT !.args = <<form, fail_at>>]
           pairs == <<<<"WISE_API_URL", form.api_url>>,
                      <<"WISE_API_TOKEN", form.api_token>>,
                      <<"WISE_ENTITY_NUMBER", form.entity_number>>,
                      <<"WISE_SANDBOX_MODE", set_value(PyBool(form.is_sandbox))>>>>
       IN IF \/ form.api_url = "" \/ ~url_pattern(form.api_url)
             \/ form.entity_number = "" \/ ~isdigit(form.entity_number)
          THEN /\ resp' = [r EXCEPT !.status = "invalid"]
               /\ UNCHANGED settings
          ELSE IF fail_at = 0
          THEN /\ settings' = set_user_settings(settings, u, pairs, 4)
               /\ resp' = r
          ELSE /\ settings' = set_user_settings(settings, u, pairs, fail_at - 1)
               /\ resp' = [r EXCEPT !.status = "error"]
    /\ UNCHANGED <<inflight, users, accounts, logged, transactions, codes, documents, links, disk>>

\* routes/settings.py clear_wise_settings
clear_wise_settings(u) ==
    /\ u \in logged
    /\ settings' =
         set_user_setting(
           set_user_setting(
             set_user_setting(
               set_user_setting(settings, u, "WISE_API_URL", "https://api.wise.com"),
               u, "WISE_API_TOKEN", ""),
             u, "WISE_ENTITY_NUMBER", ""),
           u, "WISE_SANDBOX_MODE", "false")
    /\ resp' = Reply("clear_settings", u, "ok")
    /\ UNCHANGED <<inflight, users, accounts, logged, transactions, codes, documents, links, disk>>

\* values the settings routes store: URL, token, profile number, sandbox flag
SettingValues == {PyStr("https://api.wise.com"), PyStr("token"), PyStr("123"), PyBool(TRUE), PyBool(FALSE)}

\* AppSettings.set_user_setting followed by AppSettings.get_user_setting of
\* the same user and key
setting_round_trip(u, key, value) ==
    /\ u \in logged
    /\ settings' = set_user_setting(settings, u, key, set_value(value))
    /\ resp' = [Reply("setting_round_trip", u, "ok") EXCEPT
                   !.args = <<key, value>>,
                   !.target = IF \E s \in settings' : s.user_id = u /\ s.setting_key = key
                              THEN get_value(get_user_setting(settings', u, key, NULL), PyNone)
                              ELSE PyNone]
    /\ UNCHANGED <<inflight, users, accounts, logged, transactions, codes, documents, links, disk>>

\* the truth value of AppSettings.get_value: the stored text read as JSON
IsSet(value) == value \notin {"", "0", "false", "null"}

\* User.get_wise_config
get_wise_config(u) ==
    [api_url |-> get_user_setting(settings, u, "WISE_API_URL", "https://api.wise.com"),
     api_token |-> get_user_setting(settings, u, "WISE_API_TOKEN", ""),
     entity_number |-> get_user_setting(settings, u, "WISE_ENTITY_NUMBER", "")]

\* AppSettings.get_setting: the first row with the key, of whatever user
get_setting(key, default) ==
    IF \E st \in settings : st.setting_key = key
    THEN (CHOOSE st \in settings :
            /\ st.setting_key = key
            /\ \A o \in settings : o.setting_key = key => st.user_id <= o.user_id).setting_value
    ELSE default

\* WiseAPIService.__init__
WiseAPIService(api_url, api_token, profile_id) ==
    IF IsSet(api_url) /\ IsSet(api_token)
    THEN [api_url |-> api_url, api_token |-> api_token, profile_id |-> profile_id]
    ELSE [api_url |-> get_setting("WISE_API_URL", "https://api.wise.com"),
          api_token |-> get_setting("WISE_API_TOKEN", ""),
          profile_id |-> get_setting("WISE_ENTITY_NUMBER", "")]

\* what the provider does with the balances call: it answers with a list of
\* balances, with an empty list, with a list of objects that have no id, or
\* the call raises (network failure, HTTP error status)
BalancesOutcomes == {"list", "empty", "no_id", "raises"}
\* and with the statement call of a balance
StatementOutcomes == {"transactions", "raises"}

\* WiseAPIService._get_balances: an exception of the call is logged and
\* answered with []
get_balances(outcome) ==
    CASE outcome = "list" -> <<[id |-> 1, currency |-> "USD"]>>
      [] outcome = "no_id" -> <<[currency |-> "USD"]>>
      [] OTHER -> <<>>

\* WiseAPIService._get_balance_transactions
get_balance_transactions(outcome) ==
    IF outcome = "transactions" THEN <<InRentShop>> ELSE <<>>

\* WiseAPIService._generate_dummy_transactions: the sample records
generate_dummy_transactions == <<InOutflow, InPayment>>

\* WiseAPIService.get_transactions
get_transactions(service, balances, statement) ==
    IF ~(IsSet(service.api_url) /\ IsSet(service.api_token) /\ IsSet(service.profile_id))
    THEN <<>>
    ELSE IF get_balances(balances) = <<>> THEN <<>>
    ELSE IF \E i \in DOMAIN get_balances(balances) : "id" \notin DOMAIN get_balances(balances)[i]
    THEN generate_dummy_transactions
    ELSE get_balance_transactions(statement)

\* WiseAPIService.test_connection: isinstance(self._get_balances(), list)
test_connection(service, balances) ==
    IF ~(IsSet(service.api_url) /\ IsSet(service.api_token) /\ IsSet(service.profile_id))
    THEN FALSE
    ELSE get_balances(balances) \in Seq({[id |-> 1, currency |-> "USD"], [currency |-> "USD"]})

\* routes/settings.py test_wise_connection: the client is built from the
\* stored URL and token, with no profile id
test_wise_connection(u, balances) ==
    /\ u \in logged
    /\ LET wise_config == get_wise_config(u)
           r == [Reply("test_connection", u, "failure") EXCEPT !.args = <<balances>>]
       IN IF ~IsSet(wise_config.api_token)
          THEN resp' = [r EXCEPT !.status = "no_token"]
          ELSE IF test_connection(WiseAPIService(wise_config.api_url,
                                                 wise_config.api_token, ""), balances)
          THEN resp' = [r EXCEPT !.status = "success"]
          ELSE resp' = r
    /\ UNCHANGED <<inflight, db, logged, disk>>

\* get_transactions called as sync_bank_transactions calls it, on a client
\* built from the user's stored URL, token and profile id
call_get_transactions(u, balances, statement) ==
    /\ u \in logged
    /\ LET wise_config == get_wise_config(u)
       IN resp' = [Reply("get_transactions", u, "returned") EXCEPT
                      !.args = <<balances, statement>>,
                      !.rows = get_transactions(
                                 WiseAPIService(wise_config.api_url, wise_config.api_token,
                                                wise_config.entity_number),
                                 balances, statement)]
    /\ UNCHANGED <<inflight, db, logged, disk>>

\* the account deletion with no cascade from the user to its documents
delete_account_KeepDocuments(u, passwordOk, confirm_text) ==
    /\ u \in logged
    /\ UNCHANGED inflight
    /\ LET r == Reply("delete_account", u, "ok")
           gone_t == {t \in transactions : t.user_id = u}
           gone_d == {d \in documents : d.user_id = u}
           gone_c == {c \in codes : c.user_id = u}
           nulled == {c \in codes \ gone_c : c.transaction_id \in {t.id : t \in gone_t}}
       IN IF ~passwordOk
          THEN /\ resp' = [r EXCEPT !.status = "bad_password"]
               /\ UNCHANGED <<users, accounts, logged, transactions, codes, documents, links,
                              settings, disk>>
          ELSE IF confirm_text # "DELETE"
          THEN /\ resp' = [r EXCEPT !.status = "not_confirmed"]
               /\ UNCHANGED <<users, accounts, logged, transactions, codes, documents, links,
                              settings, disk>>
          ELSE /\ disk' = RemoveUserTree(disk, u)
               /\ IF nulled = {}
                  THEN /\ users' = users \ {u}
                       /\ accounts' = [x \in users \ {u} |-> accounts[x]]
                       /\ transactions' = transactions \ gone_t
                       /\ codes' = codes \ gone_c
                       /\ documents' = documents
                       /\ settings' = {s \in settings : s.user_id # u}
                       /\ links' = {l \in links :
                                      /\ l[1] \notin {t.id : t \in gone_t}
                                      /\ l[2] \notin {d.id : d \in gone_d}}
                       /\ logged' = logged \ {u}
                       /\ resp' = r
                  ELSE /\ resp' = [r EXCEPT !.status = "error"]
                       /\ UNCHANGED <<users, accounts, logged, transactions, codes, documents,
                                      links, settings>>

\* routes/auth.py delete_account.  Deleting the User row deletes the rows of
\* its four cascading relationships and, with each Transaction or Document,
\* that row's transaction_documents rows; a TransactionCode of a deleted
\* transaction that is not itself deleted would be set to NULL.
delete_account(u, passwordOk, confirm_text) ==
    /\ u \in logged
    /\ UNCHANGED inflight
    /\ LET r == Reply("delete_account", u, "ok")
           gone_t == {t \in transactions : t.user_id = u}
           gone_d == {d \in documents : d.user_id = u}
           gone_c == {c \in codes : c.user_id = u}
           nulled == {c \in codes \ gone_c : c.transaction_id \in {t.id : t \in gone_t}}
       IN IF ~passwordOk
          THEN /\ resp' = [r EXCEPT !.status = "bad_password"]
               /\ UNCHANGED <<users, accounts, logged, transactions, codes, documents, links,
                              settings, disk>>
          ELSE IF confirm_text # "DELETE"
          THEN /\ resp' = [r EXCEPT !.status = "not_confirmed"]
               /\ UNCHANGED <<users, accounts, logged, transactions, codes, documents, links,
                              settings, disk>>
          ELSE /\ disk' = RemoveUserTree(disk, u)
               /\ IF nulled = {}
                  THEN /\ users' = users \ {u}
                       /\ accounts' = [x \in users \ {u} |-> accounts[x]]
                       /\ transactions' = transactions \ gone_t
                       /\ codes' = codes \ gone_c
                       /\ documents' = documents \ gone_d
                       /\ settings' = {s \in settings : s.user_id # u}
                       /\ links' = {l \in links :
                                      /\ l[1] \notin {t.id : t \in gone_t}
                                      /\ l[2] \notin {d.id : d \in gone_d}}
                       /\ logged' = logged \ {u}
                       /\ resp' = r
                  ELSE /\ resp' = [r EXCEPT !.status = "error"]
                       /\ UNCHANGED <<users, accounts, logged, transactions, codes, documents,
                                      links, settings>>

\* A direct call of TransactionDeduplicator.is_duplicate at the default
\* threshold, as the test suites make it; the response also records the rows
\* find_potential_duplicates scored.
call_is_duplicate(u, inp) ==
    /\ \E dup \in {is_duplicate(transactions, inp.date, inp.amount, inp.description,
                                inp.payment_reference, inp.payee_name, 0, 80 * Pct, u)} :
          resp' = [Reply("is_duplicate", u, IF dup[1] THEN "duplicate" ELSE "unique")
                   EXCEPT !.input = inp, !.match = dup[2], !.confidence = dup[3],
                          !.scored = {t.id : t \in Candidates(transactions, inp.date,
                                                              inp.amount, 0, u)}]
    /\ UNCHANGED <<inflight, users, accounts, logged, transactions, codes, documents, links, settings, disk>>

\* ---------------------------------------------------------- specifications
\* transaction management: documents, coding, edits and deletions by two users
Next ==
    \/ \E u \in UserIds, inp \in ManageInputs :
           handle_single_transaction_upload(u, inp, TRUE)
    \/ \E u \in UserIds, tid \in TxnIds : transaction_detail(u, tid)
    \/ \E u \in UserIds, tid \in TxnIds, fileOk \in BOOLEAN :
           NextId(documents) <= MaxDocs /\ upload_document(u, tid, fileOk)
    \/ \E u \in UserIds, tid \in TxnIds, category \in {"Revenue", "Other"} :
           code_transaction(u, tid, category)
    \/ \E u \in UserIds, tid \in TxnIds, did \in DocIds : remove_document(u, tid, did)
    \/ \E u \in UserIds, tid \in TxnIds, form \in ManageForms :
           edit_transaction(u, tid, form, TRUE)
    \/ \E u \in UserIds, tid \in TxnIds : delete_transaction(u, tid)
    \/ \E u \in UserIds, tid \in TxnIds : reset_transaction_coding(u, tid)
    \/ \E u \in UserIds, ids \in SUBSET TxnIds : mass_delete_transactions(u, ids)

Spec == Init /\ [][Next]_vars

\* account deletion over whatever the user has built up
NextAccount ==
    \/ \E u \in UserIds, inp \in ManageInputs :
           handle_single_transaction_upload(u, inp, TRUE)
    \/ \E u \in UserIds, tid \in TxnIds :
           NextId(documents) <= MaxDocs /\ upload_document(u, tid, TRUE)
    \/ \E u \in UserIds, tid \in TxnIds : code_transaction(u, tid, "Revenue")
    \/ \E u \in UserIds, ids \in SUBSET TxnIds : main_mass_delete_transactions(u, ids)
    \/ \E u \in UserIds : save_wise_settings(u, FALSE)
    \/ \E u \in UserIds, passwordOk \in BOOLEAN, confirm_text \in {"DELETE", "delete"} :
           delete_account(u, passwordOk, confirm_text)

SpecAccount == Init /\ [][NextAccount]_vars

\* duplicate detection: ingestion, edits and direct calls over the full pool
NextDedup ==
    \/ \E u \in UserIds, inp \in DedupInputs, textOk \in BOOLEAN :
           handle_single_transaction_upload(u, inp, textOk)
    \/ \E u \in UserIds, tid \in TxnIds, form \in DedupForms, textOk \in BOOLEAN :
           edit_transaction(u, tid, form, textOk)
    \/ \E u \in UserIds, inp \in DedupInputs : call_is_duplicate(u, inp)

SpecDedup == Init /\ [][NextDedup]_vars

\* The ingestion paths: manual entry and CSV import.
NextIngest ==
    \/ \E u \in UserIds : handle_single_transaction_upload(u, InRent, TRUE)
    \/ \E u \in UserIds, rows \in CsvFiles : handle_csv_upload(u, TRUE, rows)
    \/ \E u \in UserIds : handle_csv_upload(u, FALSE, <<>>)

SpecIngest == Init /\ [][NextIngest]_vars

\* The bank synchronisation, next to manual entry.
NextSync ==
    \/ \E u \in UserIds : save_wise_settings(u, FALSE)
    \/ \E u \in UserIds, inp \in {InRentRef, InOutflow} :
           handle_single_transaction_upload(u, inp, TRUE)
    \/ \E u \in UserIds, records \in SyncLists : sync_bank_transactions(u, records)

SpecSync == Init /\ [][NextSync]_vars

\* The transaction listing over coded and uncoded transactions.
\* start date, end date and search text of a listing
ListRanges == {<<0, 0, <<>>>>, <<2, 0, <<>>>>, <<2, 1, <<>>>>, <<0, 1, W_Rent>>}
NextListing ==
    \/ \E u \in UserIds, inp \in {InPayment, InLater} :
           handle_single_transaction_upload(u, inp, TRUE)
    \/ \E u \in UserIds, tid \in TxnIds, category \in CATEGORIES :
           code_transaction(u, tid, category)
    \/ \E u \in UserIds, status \in StatusFilters \cup {"coded"},
          category \in CategoryFilters, more \in ListRanges :
           list_transactions(u, status, category, more[1], more[2], more[3])

SpecListing == Init /\ [][NextListing]_vars

\* The report over coded transactions in two currencies.
NextReports ==
    \/ \E u \in UserIds, inp \in {InRent, InOutflow, InPayment, InLater} :
           handle_single_transaction_upload(u, inp, TRUE)
    \/ \E u \in UserIds, tid \in TxnIds, category \in CATEGORIES :
           code_transaction(u, tid, category)
    \/ \E u \in UserIds, start \in 1..2, end \in 1..2 : reports(u, start, end)

SpecReports == Init /\ [][NextReports]_vars

\* The dashboard over transactions with documents.
NextDashboard ==
    \/ \E u \in UserIds, inp \in {InRent, InLater} :
           handle_single_transaction_upload(u, inp, TRUE)
    \/ \E u \in UserIds, tid \in TxnIds, fileOk \in BOOLEAN :
           NextId(documents) <= MaxLinked /\ upload_document(u, tid, fileOk)
    \/ \E u \in UserIds, tid \in TxnIds, did \in 1..MaxLinked : remove_document(u, tid, did)
    \/ \E u \in UserIds : dashboard(u)

SpecDashboard == Init /\ [][NextDashboard]_vars

\* The visitors: one registered account, active or deactivated, nobody
\* logged in.
InitAuth ==
    /\ users = {1}
    /\ \E active \in BOOLEAN :
          accounts = [u \in {1} |-> [Account(EmailOf[u], "password1")
                                       EXCEPT !.is_active = active]]
    /\ logged = {}
    /\ transactions = {}
    /\ codes = {}
    /\ documents = {}
    /\ links = {}
    /\ settings = {}
    /\ disk = {}
    /\ resp = Response
    /\ inflight = [w \in Workers |-> Idle]

NextAuth ==
    \/ \E cur \in UserIds \cup {0}, email \in DOMAIN StripLower,
          password \in {"", "password1", "password2"}, next_page \in NextPages :
           login(cur, email, password, next_page)
    \/ \E u \in UserIds : logout(u)
    \/ \E email \in DOMAIN StripLower, password \in {"password2", "short"},
          confirm_password \in {"password2", "short"}, namesOk \in BOOLEAN :
           register(email, password, confirm_password, namesOk)
    \/ \E u \in UserIds, passwordOk \in BOOLEAN, confirm_text \in {"DELETE", "delete"} :
           delete_account(u, passwordOk, confirm_text)

SpecAuth == InitAuth /\ [][NextAuth]_vars

\* The bank client, over saved and cleared settings and what the provider
\* answers.
NextBank ==
    \/ \E u \in UserIds, is_sandbox \in BOOLEAN : save_wise_settings(u, is_sandbox)
    \/ \E u \in UserIds : clear_wise_settings(u)
    \/ \E u \in UserIds, balances \in BalancesOutcomes : test_wise_connection(u, balances)
    \/ \E u \in UserIds, balances \in BalancesOutcomes, statement \in StatementOutcomes :
           call_get_transactions(u, balances, statement)

SpecBank == Init /\ [][NextBank]_vars

\* The amount validator over numbers of up to twelve digits after the point.
AmountInputs ==
    {Dec(neg, int, frac) :
       neg \in BOOLEAN, int \in {0, 1, 50, 100, 999999999, 1000000000},
       frac \in {<<>>, <<5>>, <<0, 0>>, <<0, 1>>, <<9, 9>>, <<0, 0, 0>>, <<0, 0, 1>>,
                 <<5, 5, 5>>, <<9, 9, 9, 9, 9, 9, 9, 9, 9, 9, 9, 9>>}}

NextAmount == \E d \in AmountInputs : call_validate_amount(d)

SpecAmount == Init /\ [][NextAmount]_vars

\* forms of the save-settings request
SettingForms ==
    [api_url : {"https://sandbox.wise.com", "sandbox"}, api_token : {"token2"},
     entity_number : {"456", "x456"}, is_sandbox : {TRUE}]

\* The settings table written and read back by two users.
NextSettings ==
    \/ \E u \in UserIds, is_sandbox \in BOOLEAN : save_wise_settings(u, is_sandbox)
    \/ \E u \in UserIds : clear_wise_settings(u)
    \/ \E u \in UserIds, key \in {"WISE_API_TOKEN", "WISE_ENTITY_NUMBER"},
          value \in SettingValues : setting_round_trip(u, key, value)

SpecSettings == Init /\ [][NextSettings]_vars

\* Settings saved by requests that validation may reject and that the
\* database may fail.
NextSave ==
    \/ \E u \in UserIds : clear_wise_settings(u)
    \/ \E u \in UserIds, form \in SettingForms, fail_at \in 0..4 :
           save_wise_settings_form(u, form, fail_at)

SpecSave == Init /\ [][NextSave]_vars

\* ------------------------------------------------------------------ claims
ManagementOps == {"detail", "upload_document", "code", "edit", "delete",
                  "reset_coding", "remove_document", "mass_delete"}

\* C1: a transaction-management request of user A leaves every Transaction,
\* TransactionCode and Document row of another user unchanged; a request that
\* names a transaction of another user is answered not-found; a mass-delete
\* given a mix of A's and another user's identifiers deletes exactly A's
\* listed transactions and reports their number.
C1_DataIsolation ==
    [][resp'.op \in ManagementOps =>
         LET A == resp'.uid
             foreign(rows) == {r \in rows : r.user_id # A}
             mine == {t \in transactions : t.id \in resp'.ids /\ t.user_id = A}
             theirs == {t \in transactions : t.id \in resp'.ids /\ t.user_id # A}
         IN /\ foreign(transactions') = foreign(transactions)
            /\ foreign(codes') = foreign(codes)
            /\ foreign(documents') = foreign(documents)
            /\ (\E t \in transactions : t.id = resp'.tid /\ t.user_id # A)
                   => resp'.status = "not_found"
            /\ (resp'.op = "mass_delete" /\ mine # {} /\ theirs # {})
                   => /\ transactions' = transactions \ mine
                      /\ resp'.status = "ok"
                      /\ resp'.n = Cardinality(mine)]_vars

\* C2: is_duplicate called for user U scores and returns only transactions
\* of U, and returns (false, none, 0.0) when U stores no transaction on the
\* input's date, whatever the other users store.
C2_NeverCrossesUsers ==
    resp.op = "is_duplicate" =>
        LET own == {t \in transactions : t.user_id = resp.uid}
        IN /\ resp.scored \subseteq {t.id : t \in own}
           /\ resp.match # 0 => resp.match \in {t.id : t \in own}
           /\ {t \in own : t.date = resp.input.date} = {}
                  => /\ resp.status = "unique"
                     /\ resp.match = 0
                     /\ resp.confidence = 0

\* C2 witness: another user stores the very transaction asked about, U stores
\* nothing, and the call answers (false, none, 0.0)
C2_Witness ==
    /\ resp.op = "is_duplicate"
    /\ resp.status = "unique"
    /\ resp.confidence = 0
    /\ {t \in transactions : t.user_id = resp.uid} = {}
    /\ \E t \in transactions :
         /\ t.user_id # resp.uid
         /\ t.date = resp.input.date
         /\ t.amount * 10 = resp.input.amount
         /\ t.amount > 0
         /\ t.description = resp.input.description
         /\ t.payment_reference = resp.input.payment_reference
         /\ t.payment_reference # <<>>

\* C3: is_duplicate called for user U with the exact date, amount and
\* description of a transaction T stored for U, and with T's payment
\* reference or with no reference and no payee at all, answers true with an
\* exact match as the match and a confidence of at least 0.8.
C3_ExactMatchDetected ==
    resp.op = "is_duplicate" =>
        LET exact == {t \in transactions :
                        /\ t.user_id = resp.uid
                        /\ t.date = resp.input.date
                        /\ t.amount * 10 = resp.input.amount
                        /\ t.description = resp.input.description
                        /\ \/ resp.input.payment_reference = t.payment_reference
                           \/ /\ resp.input.payment_reference = <<>>
                              /\ resp.input.payee_name = <<>>}
        IN exact # {} =>
             /\ resp.status = "duplicate"
             /\ resp.match \in {t.id : t \in exact}
             /\ resp.confidence >= 80 * Pct

\* C4: every stored transaction of the same user and date whose amount equals
\* the normalized input amount lies in the +/-5% band and is scored by
\* find_potential_duplicates, for positive, zero and negative amounts.
C4_BandIsToleranceWindow ==
    resp.op = "is_duplicate" =>
        \A t \in transactions :
            (/\ t.user_id = resp.uid
             /\ t.date = resp.input.date
             /\ t.amount = normalize_amount(resp.input.amount))
                => t.id \in resp.scored

\* C5: after a successful code-transaction request the transaction is coded
\* and displays "Reconciled"; a successful reset-coding request removes the
\* coding row, leaves the transaction uncoded and displaying "Unreconciled",
\* and changes neither the transaction row nor any document row, association
\* or file.
C5_CodingLifecycle ==
    [][/\ (resp'.op = "code" /\ resp'.status = "ok") =>
            /\ OwnRow(transactions', resp'.tid, resp'.uid) # {}
            /\ \A t \in OwnRow(transactions', resp'.tid, resp'.uid) :
                   is_coded(t)' /\ status_display(t)' = "Reconciled"
       /\ (resp'.op = "reset_coding" /\ resp'.status = "ok") =>
            /\ \E c \in codes : c.transaction_id = resp'.tid /\ c \notin codes'
            /\ OwnRow(transactions', resp'.tid, resp'.uid) # {}
            /\ \A t \in OwnRow(transactions', resp'.tid, resp'.uid) :
                   /\ CodesOf(t)' = {}
                   /\ ~is_coded(t)'
                   /\ status_display(t)' = "Unreconciled"
            /\ UNCHANGED <<transactions, documents, links, disk>>]_vars

\* C5 witness: the coding of a once coded transaction that has a document
\* with its file on disk has just been reset
C5_Witness ==
    /\ resp.op = "reset_coding"
    /\ resp.status = "ok"
    /\ \E t \in OwnRow(transactions, resp.tid, resp.uid) :
         /\ t.status = "coded"
         /\ ~is_coded(t)
         /\ \E d \in DocumentsOf(t) : \E f \in disk : f.path = d.file_path

\* C6: no Transaction, TransactionCode, Document or AppSettings row belongs
\* to a deleted user, and every association row refers to an existing
\* transaction and an existing document.
C6_UserDeletionCascades ==
    /\ \A t \in transactions : t.user_id \in users
    /\ \A c \in codes : c.user_id \in users
    /\ \A d \in documents : d.user_id \in users
    /\ \A st \in settings : st.user_id \in users
    /\ \A l \in links : /\ l[1] \in {t.id : t \in transactions}
                        /\ l[2] \in {d.id : d \in documents}

\* C6 witness: a user who had uploaded a document to a transaction has just
\* been deleted while the other user keeps a coded transaction and settings
C6_Witness ==
    /\ resp.op = "delete_account"
    /\ resp.status = "ok"
    /\ resp.uid \notin users
    /\ \E f \in disk : f.uploader = resp.uid
    /\ \E t \in transactions : is_coded(t)
    /\ settings # {}

\* C7: after a successful delete-account request the visitor is anonymous and
\* no file that the user uploaded through upload-document is left in the
\* upload tree.
C7_AccountDeletionDestroysFiles ==
    (resp.op = "delete_account" /\ resp.status = "ok") =>
        /\ resp.uid \notin logged
        /\ \A f \in disk : f.uploader # resp.uid

\* C8: a mass-delete naming transactions of the current user succeeds, coded
\* or not and with documents or not; afterwards none of them, none of their
\* TransactionCode rows and none of their linked Document rows remain, and
\* the reported count is the number of transactions removed.
C8_MassDeleteRemovesDependents ==
    [][resp'.op = "mass_delete" =>
         LET selected == {t \in transactions :
                            t.id \in resp'.ids /\ t.user_id = resp'.uid}
             docs == UNION {DocumentsOf(t) : t \in selected}
         IN selected # {} =>
              /\ resp'.status = "ok"
              /\ transactions' \cap selected = {}
              /\ \A c \in codes' : c.transaction_id \notin {t.id : t \in selected}
              /\ documents' \cap docs = {}
              /\ resp'.n = Cardinality(selected)]_vars

\* C9: a delete-transaction, remove-document or mass-delete request,
\* committed or rolled back, leaves no Document row whose file it removed
\* from disk.
C9_NoDanglingFilePointer ==
    [][resp'.op \in {"delete", "remove_document", "mass_delete"} =>
         \A d \in documents' :
             (\E f \in disk : f.path = d.file_path)
                 => (\E f \in disk' : f.path = d.file_path)]_vars

\* C10: a validated edit that changes the description or the amount to values
\* that score at least 0.8 against another transaction of the same user on
\* the same date changes none of the stored fields; every other validated
\* edit applies description, payee, merchant, reference, amount and currency
\* together.
C10_EditAllOrNothing ==
    [][(resp'.op = "edit" /\ resp'.status \in {"ok", "duplicate"}) =>
         \A t \in OwnRow(transactions, resp'.tid, resp'.uid) :
           LET form == resp'.input
               changed == \/ form.description # t.description
                          \/ form.amount \div 10 # t.amount
               score(o) == calculate_duplicate_confidence(
                               o, normalize_amount(form.amount),
                               normalize_description(form.description),
                               normalize_reference(form.payment_reference),
                               form.payee_name)
               rivals == {o \in transactions :
                            /\ o.user_id = t.user_id
                            /\ o.id # t.id
                            /\ o.date = t.date
                            /\ score(o) >= 80 * Pct}
           IN IF changed /\ rivals # {}
              THEN transactions' = transactions
              ELSE transactions' = (transactions \ {t}) \cup
                       {[t EXCEPT !.description = form.description,
                                  !.payee_name = form.payee_name,
                                  !.merchant = form.merchant,
                                  !.payment_reference = form.payment_reference,
                                  !.amount = form.amount \div 10,
                                  !.currency = validate_currency_code(form.currency)]}]_vars

\* The stored transactions of user u that a record duplicates at a threshold,
\* as section 4.4 of the specification defines it: same date, amount within
\* 5% of the record's amount, score at least the threshold.
DuplicatesOf(rows, u, date, rec, threshold) ==
    {t \in rows :
       /\ t.user_id = u
       /\ t.date = date
       /\ AbsInt(t.amount - normalize_amount(rec.amount)) * 100
              <= 5 * AbsInt(normalize_amount(rec.amount))
       /\ calculate_duplicate_confidence(
              t, normalize_amount(rec.amount), normalize_description(rec.description),
              normalize_reference(rec.payment_reference), rec.payee_name) >= threshold}

\* C11: a single manual entry stores exactly one new transaction, owned by
\* the user and with status "unreconciled", when the data is valid and not a
\* duplicate at threshold 0.8; when the data fails validation or is a
\* duplicate, no transaction is stored.
C11_SingleEntry ==
    [][resp'.op = "single_upload" =>
         LET u == resp'.uid
             inp == resp'.input
         IN IF /\ resp'.status # "invalid"
               /\ DuplicatesOf(transactions, u, inp.date, inp, 80 * Pct) = {}
            THEN \E t \in transactions' :
                   /\ t \notin transactions
                   /\ transactions' = transactions \cup {t}
                   /\ t.user_id = u
                   /\ t.status = "unreconciled"
            ELSE transactions' = transactions]_vars


\* the rows of a file are all valid and no row is a duplicate at 0.75 of an
\* earlier row of the file
AcceptableFile(u, rows) ==
    /\ \A i \in 1..Len(rows) : ValidData(rows[i], TRUE)
    /\ \A i, j \in 1..Len(rows) :
          i < j => DuplicatesOf({NewRow({}, u, rows[i], "unreconciled")}, u,
                                rows[j].date, rows[j], 75 * Pct) = {}

\* no row of the file is a duplicate at 0.75 of a stored transaction
NoneStored(rows, u, file) ==
    \A i \in 1..Len(file) :
        DuplicatesOf(rows, u, file[i].date, file[i], 75 * Pct) = {}

\* exactly one new unreconciled transaction of the user per row of the file,
\* carrying currency(row)
StoresEveryRow(old, new, u, file, currency(_)) ==
    /\ old \subseteq new
    /\ Cardinality(new \ old) = Len(file)
    /\ \A t \in new \ old : t.user_id = u /\ t.status = "unreconciled"
    /\ \A i \in 1..Len(file) :
          \E t \in new \ old :
             /\ t.date = file[i].date
             /\ t.amount = file[i].amount \div 10
             /\ t.description = file[i].description
             /\ t.currency = currency(file[i].currency)

Verbatim(c) == c

SyncKeeps(old, new) ==
    \A t \in old :
       \E n \in new :
          /\ n.id = t.id /\ n.user_id = t.user_id /\ n.status = t.status
          /\ n.date = t.date /\ n.amount = t.amount
          /\ n.currency = t.currency /\ n.description = t.description
          /\ t.payment_reference # <<>> => n.payment_reference = t.payment_reference
          /\ t.payee_name # <<>> => n.payee_name = t.payee_name
          /\ t.merchant # <<>> => n.merchant = t.merchant

\* C13: a sync treats an incoming record in exactly one of two ways: if it is
\* a duplicate at threshold 0.85 of a transaction of the current user, no row
\* is inserted and only empty payment reference, payee name and merchant of
\* stored rows are filled in; otherwise one new transaction owned by the
\* current user is inserted. A sync never changes a non-empty payment
\* reference, payee name or merchant, nor the date, amount, currency or
\* description of a stored transaction.
C13_SyncOneOfTwoWays ==
    [][(resp'.op = "sync" /\ resp'.status = "ok") =>
         /\ SyncKeeps(transactions, transactions')
         /\ Len(resp'.rows) = 1 =>
              IF DuplicatesOf(transactions, resp'.uid, resp'.rows[1].date,
                              resp'.rows[1], 85 * Pct) # {}
              THEN {t.id : t \in transactions'} = {t.id : t \in transactions}
              ELSE \E t \in transactions' :
                      /\ t.id \notin {o.id : o \in transactions}
                      /\ t.user_id = resp'.uid
                      /\ transactions' = transactions \cup {t}]_vars


\* a transaction satisfies a status filter, a category filter
SatisfiesStatus(t, status) ==
    CASE status = "reconciled" -> CodesOf(t) # {}
      [] status = "unreconciled" -> CodesOf(t) = {}
      [] OTHER -> TRUE
SatisfiesCategory(t, category) ==
    CASE category = "undefined" -> CodesOf(t) = {}
      [] category = "revenue" -> \E c \in CodesOf(t) : c.category_name = "Revenue"
      [] category = "expense" -> \E c \in CodesOf(t) : c.category_name = "Expense"
      [] OTHER -> TRUE

RECURSIVE SumOfAmounts(_, _)
\* the sum of the amounts, or of the absolute amounts, of a set of rows
SumOfAmounts(S, absolute) ==
    IF S = {} THEN 0
    ELSE LET x == CHOOSE y \in S : TRUE
         IN (IF absolute THEN AbsInt(x.amount) ELSE x.amount)
              + SumOfAmounts(S \ {x}, absolute)

\* the user's transactions dated in [start, end] in a currency and coded with
\* a category
Reported(u, start, end, currency, category) ==
    {t \in transactions :
       /\ t.user_id = u
       /\ t.date >= start /\ t.date <= end
       /\ t.currency = currency
       /\ \E c \in codes : c.transaction_id = t.id /\ c.category_name = category}

\* C15: report totals are over exactly the current user's coded transactions
\* dated within [start, end]: per currency, revenue is the sum of the amounts
\* coded Revenue and expense the sum of the absolute amounts coded Expense;
\* a currency with no such transaction has no totals.
C15_ReportTotals ==
    resp.op = "report" =>
      LET u == resp.uid
          start == resp.args[1]
          end == resp.args[2]
      IN /\ DOMAIN resp.totals =
              {cur \in VALID_CURRENCIES :
                 \E cat \in CATEGORIES : Reported(u, start, end, cur, cat) # {}}
         /\ \A cur \in DOMAIN resp.totals :
              /\ resp.totals[cur].revenue =
                    SumOfAmounts(Reported(u, start, end, cur, "Revenue"), FALSE)
              /\ resp.totals[cur].expense =
                    SumOfAmounts(Reported(u, start, end, cur, "Expense"), TRUE)

\* a report of revenue 100.00 and, from an outflow, expense 50.00
C15_Witness ==
    /\ resp.op = "report"
    /\ DOMAIN resp.totals = {"USD"}
    /\ resp.totals["USD"] = [revenue |-> 10000, expense |-> 5000]


\* C16: the dashboard's reconciled count is the number of the current user's
\* transactions that have at least one linked document, each counted once,
\* so that 0 <= reconciled <= total and unreconciled = total - reconciled is
\* never negative.
C16_DashboardCounts ==
    resp.op = "dashboard" =>
      /\ resp.args[2] = Cardinality({t \in transactions :
                                       t.user_id = resp.uid /\ DocumentsOf(t) # {}})
      /\ 0 <= resp.args[2] /\ resp.args[2] <= resp.args[1]
      /\ resp.args[3] = resp.args[1] - resp.args[2]
      /\ resp.args[3] >= 0


\* the credentials of a login POST match a stored, active user
GoodCredentials(u, email_in, password) ==
    /\ u \in users
    /\ accounts[u].email = StripLower[email_in]
    /\ check_password_hash(accounts[u].password_hash, password)
    /\ accounts[u].is_active

\* C17: an account gains a session only by a login POST of an anonymous
\* visitor whose email matches the stored user, whose password verifies and
\* whose account is active, or by a successful registration; every other
\* login attempt opens no session and changes no stored data, last-login time
\* included; a session ends only by logout or successful account deletion.
C17_VisitorStateMachine ==
    [][/\ \A u \in logged' \ logged :
             \/ /\ resp'.op = "login"
                /\ resp'.args[1] = 0
                /\ GoodCredentials(u, resp'.args[2], resp'.args[3])
             \/ resp'.op = "register" /\ resp'.status = "ok" /\ resp'.uid = u
       /\ (/\ resp'.op = "login"
           /\ ~\E u \in users : GoodCredentials(u, resp'.args[2], resp'.args[3]))
          => /\ logged' = logged
             /\ UNCHANGED <<db, disk>>
       /\ \A u \in logged \ logged' :
             \/ resp'.op = "logout" /\ resp'.uid = u
             \/ resp'.op = "delete_account" /\ resp'.status = "ok" /\ resp'.uid = u]_vars

\* a second successful login of an account, after a logout, with the email
\* typed in capitals
C17_Witness ==
    /\ resp.op = "login"
    /\ resp.status = "ok"
    /\ resp.args[2] = " A@X.io"
    /\ resp.uid \in logged
    /\ accounts[resp.uid].last_login = 2


\* a path of this origin: it starts with one slash, and not with the two
\* characters that make a browser read a host name
SameOriginPath(p) ==
    /\ p # <<>>
    /\ p[1] = "/"
    /\ Len(p) >= 2 => p[2] \notin {"/", "\\"}

\* C18: after a successful login the redirect target is the dashboard or the
\* caller's next value, and a next value is used only if it is a same-origin
\* relative path; //host/path is never the target.
C18_NoOpenRedirect ==
    (resp.op = "login" /\ resp.status = "ok") =>
       \/ resp.target = Dashboard
       \/ resp.target = resp.args[4] /\ SameOriginPath(resp.args[4])


\* URL, token and profile of the user are all configured
Configured(u) ==
    /\ IsSet(get_wise_config(u).api_url)
    /\ IsSet(get_wise_config(u).api_token)
    /\ IsSet(get_wise_config(u).entity_number)

\* C19: get_transactions never propagates an error, and when URL, token and
\* profile are configured and the balances call fails with an error, it
\* returns the sample transactions of _generate_dummy_transactions.
C19_FallbackOnFailure ==
    resp.op = "get_transactions" =>
      /\ resp.status = "returned"
      /\ (Configured(resp.uid) /\ resp.args[1] = "raises")
            => resp.rows = generate_dummy_transactions

\* C20: the connection test reports success if and only if URL, token and
\* profile of the current user are configured and the balances call succeeds
\* (returning a list, possibly empty).
C20_ConnectionTestTruthful ==
    resp.op = "test_connection" =>
      (resp.status = "success"
         <=> Configured(resp.uid) /\ resp.args[1] \in {"list", "empty", "no_id"})


\* C21: get_user_setting read after set_user_setting(user, key, v) returns a
\* value equal to v and of the same type, for every value the settings routes
\* store: a URL or token string, a digits-only profile number string, a
\* boolean.
C21_SettingRoundTrip ==
    resp.op = "setting_round_trip" => resp.target = resp.args[2]


\* the user's four settings hold the values of the form
AllStored(rows, u, form) ==
    /\ get_user_setting(rows, u, "WISE_API_URL", NULL) = form.api_url
    /\ get_user_setting(rows, u, "WISE_API_TOKEN", NULL) = form.api_token
    /\ get_user_setting(rows, u, "WISE_ENTITY_NUMBER", NULL) = form.entity_number
    /\ get_user_setting(rows, u, "WISE_SANDBOX_MODE", NULL) = set_value(PyBool(form.is_sandbox))

\* C22: a save-settings request persists either all four settings or none;
\* after a failure while one of them is written none of the request's new
\* values is stored, and a request rejected by validation stores nothing.
C22_SaveIsOneUnit ==
    [][resp'.op = "save_form" =>
         /\ settings' = settings \/ AllStored(settings', resp'.uid, resp'.args[1])
         /\ resp'.status \in {"invalid", "error"} => settings' = settings]_vars


\* a value within the amount limits
InRange(d) == ~(BelowMin(d) /\ ~IsZero(d)) /\ ~AboveMax(d)

DateLess(a, b) ==
    \/ a[1] < b[1]
    \/ a[1] = b[1] /\ a[2] < b[2]
    \/ a[1] = b[1] /\ a[2] = b[2] /\ a[3] < b[3]

min_date == <<1900, 1, 1>>

max_date == <<2100, 12, 31>>

IsLeap(y) == (y % 4 = 0 /\ y % 100 # 0) \/ y % 400 = 0

DaysIn(y, m) ==
    IF m = 2 THEN (IF IsLeap(y) THEN 29 ELSE 28)
    ELSE IF m \in {4, 6, 9, 11} THEN 30 ELSE 31

\* the four formats tried in order: separator and the positions of year,
\* month and day among the three fields
formats ==
    << [sep |-> "-", y |-> 1, m |-> 2, d |-> 3],
       [sep |-> "/", y |-> 3, m |-> 1, d |-> 2],
       [sep |-> "/", y |-> 3, m |-> 2, d |-> 1],
       [sep |-> "/", y |-> 1, m |-> 2, d |-> 3] >>

\* datetime.strptime(text, fmt): %Y takes four digits, %m and %d one or two;
\* the fields must name a date of the calendar (year 1 and later)
strptime_ok(text, fmt) ==
    /\ Len(text.parts) = 3
    /\ text.sep = fmt.sep
    /\ text.parts[fmt.y][1] = 4 /\ text.parts[fmt.y][2] >= 1
    /\ text.parts[fmt.m][1] <= 2 /\ text.parts[fmt.m][2] \in 1..12
    /\ text.parts[fmt.d][1] <= 2
    /\ text.parts[fmt.d][2] \in 1..DaysIn(text.parts[fmt.y][2], text.parts[fmt.m][2])

strptime(text, fmt) ==
    <<text.parts[fmt.y][2], text.parts[fmt.m][2], text.parts[fmt.d][2]>>

\* InputValidator.validate_date: a datetime gives its date, a date is
\* returned as it is; a text is parsed by the first format that takes it
\* and the parsed date is held to [min_date, max_date]
validate_date(date_input) ==
    IF date_input.kind = "datetime" THEN [error |-> "", value |-> date_input.value]
    ELSE IF date_input.kind = "date" THEN [error |-> "", value |-> date_input.value]
    ELSE IF date_input.parts = <<>> THEN [error |-> "required", value |-> <<>>]
    ELSE IF \A i \in 1..4 : ~strptime_ok(date_input, formats[i])
    THEN [error |-> "invalid_format", value |-> <<>>]
    ELSE LET i == CHOOSE i \in 1..4 : /\ strptime_ok(date_input, formats[i])
                                      /\ \A j \in 1..(i - 1) :
                                            ~strptime_ok(date_input, formats[j])
         IN  IF \/ DateLess(strptime(date_input, formats[i]), min_date)
                \/ DateLess(max_date, strptime(date_input, formats[i]))
             THEN [error |-> "between", value |-> <<>>]
             ELSE [error |-> "", value |-> strptime(date_input, formats[i])]

call_validate_date(date_input) ==
    /\ resp' = [Reply("validate_date", 0, validate_date(date_input).error) EXCEPT
                   !.args = <<date_input>>, !.target = <<validate_date(date_input).value>>]
    /\ UNCHANGED <<inflight, db, logged, disk>>

\* digit fields of the date texts
DateFields ==
    {<<4, 1899>>, <<4, 1900>>, <<4, 2024>>, <<4, 2100>>, <<4, 2101>>,
     <<2, 2>>, <<2, 12>>, <<2, 29>>, <<2, 31>>}

DateTexts ==
    {[kind |-> "str", sep |-> "", parts |-> <<>>, value |-> <<>>, hour |-> 0]}
    \cup {[kind |-> "str", sep |-> s, parts |-> <<a, b, c>>, value |-> <<>>, hour |-> 0] :
            s \in {"-", "/"}, a \in DateFields, b \in DateFields, c \in DateFields}

\* date and datetime objects: every date of the calendar a program can build
DateObjects ==
    {[kind |-> k, sep |-> "", parts |-> <<>>, value |-> v,
      hour |-> IF k = "datetime" THEN 13 ELSE 0] :
        k \in {"date", "datetime"},
        v \in {w \in {1800, 1899, 1900, 2024, 2100, 2101} \X {1, 2, 12} \X {1, 28, 29, 31} :
                 w[3] <= DaysIn(w[1], w[2])}}

NextDate ==
    \/ \E date_input \in DateTexts : call_validate_date(date_input)
    \/ \E date_input \in DateObjects : call_validate_date(date_input)

SpecDate == Init /\ [][NextDate]_vars

InBounds(d) == ~DateLess(d, min_date) /\ ~DateLess(max_date, d)

\* C24: every date validate_date returns lies within [1900-01-01, 2100-12-31],
\* whether the input was a text in an accepted format, a date or a datetime
\* object; an input outside the range is rejected.
C24_ReturnedDateInRange ==
    resp.op = "validate_date" /\ resp.status = "" => InBounds(resp.target[1])

\* the same for texts alone, which is what the code holds to the bounds
C24_ParsedDateInRange ==
    resp.op = "validate_date" /\ resp.status = "" /\ resp.args[1].kind = "str"
        => InBounds(resp.target[1])


\* ---- routes/transactions.py uploaded_file ----
\* A requested path is a sequence of symbols: name characters, ".", "/" and
\* percent escapes. urllib.parse.unquote decodes each escape once.
unquote_symbol(c) ==
    IF c = "%2e" THEN "." ELSE IF c = "%2f" THEN "/" ELSE IF c = "%252e" THEN "%2e" ELSE c

unquote(s) == [i \in 1..Len(s) |-> unquote_symbol(s[i])]

\* '..' in s
HasDotDot(s) == \E i \in 1..(Len(s) - 1) : s[i] = "." /\ s[i + 1] = "."

\* s.startswith('/')
startswith_slash(s) == Len(s) > 0 /\ s[1] = "/"

\* s.split('/')
RECURSIVE split_slash(_, _, _)
split_slash(s, cur, acc) ==
    IF s = <<>> THEN Append(acc, cur)
    ELSE IF Head(s) = "/" THEN split_slash(Tail(s), <<>>, Append(acc, cur))
    ELSE split_slash(Tail(s), Append(cur, Head(s)), acc)

\* posixpath.normpath, the loop over the components: empty and "." ones are
\* dropped, ".." removes the component before it where there is one
RECURSIVE norm_comps(_, _, _)
norm_comps(comps, new_comps, absolute) ==
    IF comps = <<>> THEN new_comps
    ELSE LET comp == Head(comps)
         IN  IF comp = <<>> \/ comp = <<".">> THEN norm_comps(Tail(comps), new_comps, absolute)
             ELSE IF comp # <<".", ".">>
                     \/ (~absolute /\ new_comps = <<>>)
                     \/ (new_comps # <<>> /\ new_comps[Len(new_comps)] = <<".", ".">>)
             THEN norm_comps(Tail(comps), Append(new_comps, comp), absolute)
             ELSE IF new_comps # <<>>
             THEN norm_comps(Tail(comps), SubSeq(new_comps, 1, Len(new_comps) - 1), absolute)
             ELSE norm_comps(Tail(comps), new_comps, absolute)

\* os.path.normpath: the normal form as its leading slash and components;
\* the empty relative path is "."
normpath(s) ==
    LET comps == norm_comps(split_slash(s, <<>>, <<>>), <<>>, startswith_slash(s))
    IN  [absolute |-> startswith_slash(s),
         comps |-> IF comps = <<>> /\ ~startswith_slash(s) THEN <<<<".">>>> ELSE comps]

\* os.path.basename of a normal form
basename(p) == IF p.comps = <<>> THEN <<>> ELSE p.comps[Len(p.comps)]

\* os.path.abspath of a stored file path, and of the upload directory, in
\* the working directory /app with UPLOAD_FOLDER "uploads"
abspath(file_path) ==
    <<"/", "app", "/", "uploads", "/", file_path.root, "/", file_path.owner, "/",
      file_path.name>>

upload_dir == <<"/", "app", "/", "uploads">>

\* str.startswith
startswith(s, prefix) == Len(s) >= Len(prefix) /\ SubSeq(s, 1, Len(prefix)) = prefix

\* the traversal check at the head of uploaded_file
TraversalAttempt(filename) ==
    \/ HasDotDot(filename) \/ HasDotDot(unquote(filename))
    \/ startswith_slash(filename) \/ startswith_slash(unquote(filename))
    \/ normpath(unquote(filename)).absolute

\* uploaded_file with the lookup by filename alone
uploaded_file_AnyOwner(u, filename) ==
    /\ u \in logged
    /\ LET r == [Reply("uploaded_file", u, "sent") EXCEPT !.args = <<filename>>]
           safe_filename == basename(normpath(unquote(filename)))
           found == {d \in documents : d.filename = safe_filename}
       IN IF TraversalAttempt(filename) THEN resp' = [r EXCEPT !.status = "invalid"]
          ELSE IF found = {} THEN resp' = [r EXCEPT !.status = "not_found"]
          ELSE \E document \in found :
               IF ~\E f \in disk : f.path = document.file_path
               THEN resp' = [r EXCEPT !.status = "gone"]
               ELSE IF ~startswith(abspath(document.file_path), upload_dir)
               THEN resp' = [r EXCEPT !.status = "denied"]
               ELSE resp' = [r EXCEPT !.did = document.id,
                                      !.target = <<document.file_path>>]
    /\ UNCHANGED <<inflight, db, logged, disk>>

\* routes/transactions.py uploaded_file: the request is refused on a
\* traversal attempt; else the current user's document whose filename is the
\* basename of the normal form is looked up, and its file is sent when it
\* exists and its absolute path starts with the upload directory
uploaded_file(u, filename) ==
    /\ u \in logged
    /\ LET r == [Reply("uploaded_file", u, "sent") EXCEPT !.args = <<filename>>]
           safe_filename == basename(normpath(unquote(filename)))
           found == {d \in documents : d.user_id = u /\ d.filename = safe_filename}
       IN IF TraversalAttempt(filename) THEN resp' = [r EXCEPT !.status = "invalid"]
          ELSE IF found = {} THEN resp' = [r EXCEPT !.status = "not_found"]
          ELSE \E document \in found :
               IF ~\E f \in disk : f.path = document.file_path
               THEN resp' = [r EXCEPT !.status = "gone"]
               ELSE IF ~startswith(abspath(document.file_path), upload_dir)
               THEN resp' = [r EXCEPT !.status = "denied"]
               ELSE resp' = [r EXCEPT !.did = document.id,
                                      !.target = <<document.file_path>>]
    /\ UNCHANGED <<inflight, db, logged, disk>>

\* symbols of the requested paths, and the longest request
PathSymbols == {"a", ".", "/", "%2e"}

MaxPath == 3

MaxServed == 2

RequestedPaths ==
    UNION {[1..n -> PathSymbols] : n \in 1..MaxPath}
    \cup {<<"b">>, <<"%2f", "a">>, <<"%252e", "%252e", "a">>, <<"a", "%2f", "b">>}

\* Two users upload documents named alike and request files by path.
NextServe ==
    \/ \E u \in UserIds : handle_single_transaction_upload(u, InRent, TRUE)
    \/ /\ NextId(documents) <= MaxServed
       /\ \E u \in UserIds, tid \in 1..MaxTxns, name \in {<<"a">>, <<"b">>} :
             upload_named_document(u, tid, TRUE, name)
    \/ \E u \in UserIds, tid \in 1..MaxTxns, did \in 1..MaxServed :
          remove_document(u, tid, did)
    \/ \E u \in UserIds, filename \in RequestedPaths : uploaded_file(u, filename)

SpecServe == Init /\ [][NextServe]_vars

ADMIN_EMAIL == "admin@bookkeeping.local"

LegacyTransactions ==
    {{}, {NewRow({}, 0, InRent, "pending")},
     {NewRow({}, 0, InRent, "pending"), [NewRow({}, 0, InLater, "pending") EXCEPT !.id = 2]}}

LegacyCodes ==
    {{}, {[id |-> 1, user_id |-> 0, transaction_id |-> 1, category_name |-> "Revenue"]}}

LegacyDocuments ==
    {{}, {[id |-> 1, user_id |-> 0, file_path |-> SavePath(1), filename |-> <<"a">>]}}

LegacySettings ==
    {{}, {[user_id |-> 0, setting_key |-> "WISE_API_URL", setting_value |-> "sandbox"]}}

InitLegacy ==
    /\ users = {}
    /\ accounts = [u \in UserIds |-> Account(EmailOf[u], "password1")]
    /\ logged = {}
    /\ transactions \in LegacyTransactions
    /\ codes \in IF transactions = {} THEN {{}} ELSE LegacyCodes
    /\ documents \in IF transactions = {} THEN {{}} ELSE LegacyDocuments
    /\ links = {<<1, d.id>> : d \in documents}
    /\ settings \in LegacySettings
    /\ disk = {[path |-> d.file_path, uploader |-> 0] : d \in documents}
    /\ resp = Response
    /\ inflight = [w \in Workers |-> Idle]

\* Model.query.update({'user_id': admin_user.id})
AssignAll(rows, admin) == {[r EXCEPT !.user_id = admin] : r \in rows}

\* run_migration, one run of the script. fail_at names the statement that
\* raises, 0 for none: 1 create_all or a count, 2 the insert and commit of
\* the admin, 3..6 the four updates, 7 their commit. The admin is committed
\* by create_default_admin_user before the updates start; a failure rolls
\* back what is not committed. migrate_file_structure moves "uploads", which
\* create_app has made, to uploads/users/<folder>, a path inside itself,
\* which shutil.move refuses by raising.
run_migration(fail_at) ==
    /\ UNCHANGED inflight
    /\ LET r == [Reply("run_migration", 0, "completed") EXCEPT !.args = <<fail_at>>]
           admin == IF users = {} THEN 1 ELSE MaxOf(users) + 1
       IN  IF fail_at = 1
           THEN /\ resp' = [r EXCEPT !.status = "failed"]
                /\ UNCHANGED <<db, logged, disk>>
           ELSE IF transactions # {} /\ users = {}
           THEN IF fail_at = 2
                THEN /\ resp' = [r EXCEPT !.status = "failed"]
                     /\ UNCHANGED <<db, logged, disk>>
                ELSE /\ users' = users \cup {admin}
                     /\ accounts' = [accounts EXCEPT ![admin] = Account(ADMIN_EMAIL, "admin123")]
                     /\ resp' = [r EXCEPT !.status = "failed", !.uid = admin]
                     /\ IF fail_at \in 3..7
                        THEN UNCHANGED <<transactions, codes, documents, settings>>
                        ELSE /\ transactions' = AssignAll(transactions, admin)
                             /\ codes' = AssignAll(codes, admin)
                             /\ documents' = AssignAll(documents, admin)
                             /\ settings' = AssignAll(settings, admin)
                     /\ UNCHANGED <<links, logged, disk>>
           ELSE IF users = {}
           THEN IF fail_at = 2
                THEN /\ resp' = [r EXCEPT !.status = "failed"]
                     /\ UNCHANGED <<db, logged, disk>>
                ELSE /\ users' = users \cup {admin}
                     /\ accounts' = [accounts EXCEPT ![admin] = Account(ADMIN_EMAIL, "admin123")]
                     /\ resp' = [r EXCEPT !.uid = admin]
                     /\ UNCHANGED <<transactions, codes, documents, links, settings, logged, disk>>
           ELSE /\ resp' = r
                /\ UNCHANGED <<db, logged, disk>>

NextMigration == \E fail_at \in 0..7 : run_migration(fail_at)

SpecMigration == InitLegacy /\ [][NextMigration]_vars

Admins == {u \in users : accounts[u].email = ADMIN_EMAIL}

\* C26: on a legacy database with transactions, whenever a run of the
\* migration reports completion there is exactly one default admin and every
\* Transaction, TransactionCode, Document and AppSetting row is owned by it.
C26_CompletedMeansMigrated ==
    resp.op = "run_migration" /\ resp.status = "completed" /\ transactions # {}
        => /\ Cardinality(Admins) = 1
           /\ \A row \in transactions \cup codes \cup documents \cup settings :
                 row.user_id \in Admins

\* C26, second part: a run started when users exist writes nothing.
C26_NoWritesWhenUsersExist ==
    [][users # {} => db' = db /\ disk' = disk]_vars


\* ---- utils/validation.py validate_text_field ----
\* Texts are sequences of characters, built here from a few pieces.
T_script == <<"<", "s", "c", "r", "i", "p", "t">>

T_iframe == <<"<", "i", "f", "r", "a", "m", "e">>

T_end_script == <<"<", "/", "s", "c", "r", "i", "p", "t", ">">>

T_end_iframe == <<"<", "/", "i", "f", "r", "a", "m", "e", ">">>

T_javascript == <<"j", "a", "v", "a", "s", "c", "r", "i", "p", "t", ":">>

T_on == <<"o", "n">>

MAX_DESCRIPTION_LENGTH == 500

\* str.lower on the capitals the texts use
lower_char(c) ==
    IF c = "S" THEN "s" ELSE IF c = "C" THEN "c" ELSE IF c = "R" THEN "r"
    ELSE IF c = "I" THEN "i" ELSE IF c = "P" THEN "p" ELSE IF c = "T" THEN "t" ELSE c

\* re.IGNORECASE: the text is compared in lower case
lower(s) == [i \in 1..Len(s) |-> lower_char(s[i])]

\* the literal pat stands in s at position i
LiteralAt(s, i, pat) == i >= 1 /\ i + Len(pat) - 1 <= Len(s) /\ SubSeq(s, i, i + Len(pat) - 1) = pat

\* \w and \s
word_char(c) == c \notin {"<", ">", "/", ":", "=", " "}

\* str.strip
RECURSIVE lstrip(_)
lstrip(s) == IF s # <<>> /\ Head(s) = " " THEN lstrip(Tail(s)) ELSE s

RECURSIVE rstrip(_)
rstrip(s) == IF s # <<>> /\ s[Len(s)] = " " THEN rstrip(SubSeq(s, 1, Len(s) - 1)) ELSE s

strip(s) == rstrip(lstrip(s))

\* re.search of <tag[^>]*>.*?</tag>, re.DOTALL: the opening tag up to its
\* first ">" and, anywhere after it, the closing tag
search_element(s, open, close) ==
    \E i \in 1..Len(s) :
        /\ LiteralAt(s, i, open)
        /\ \E j \in (i + Len(open))..Len(s) :
              /\ s[j] = ">"
              /\ \A k \in (i + Len(open))..(j - 1) : s[k] # ">"
              /\ \E m \in (j + 1)..Len(s) : LiteralAt(s, m, close)

\* re.search of javascript:
search_javascript(s) == \E i \in 1..Len(s) : LiteralAt(s, i, T_javascript)

\* re.search of on\w+\s*=
search_handler(s) ==
    \E i \in 1..Len(s) :
        /\ LiteralAt(s, i, T_on)
        /\ \E j \in (i + 2)..Len(s) :
              /\ \A n \in (i + 2)..j : word_char(s[n])
              /\ \E k \in (j + 1)..Len(s) :
                    /\ \A n \in (j + 1)..(k - 1) : s[n] = " "
                    /\ s[k] = "="

\* validate_text_field for a text value: [error, value]
validate_text_field(value, max_length, required, allow_empty) ==
    LET v == strip(value)
        low == lower(v)
    IN  IF v = <<>>
        THEN (IF required \/ ~allow_empty THEN [error |-> "empty", value |-> <<>>]
              ELSE [error |-> "", value |-> <<>>])
        ELSE IF Len(v) > max_length THEN [error |-> "exceed", value |-> <<>>]
        ELSE IF \/ search_element(low, T_script, T_end_script)
                \/ search_javascript(low)
                \/ search_handler(low)
                \/ search_element(low, T_iframe, T_end_iframe)
        THEN [error |-> "dangerous", value |-> <<>>]
        ELSE [error |-> "", value |-> v]

\* InputValidator.validate_description
validate_description(description) ==
    validate_text_field(description, MAX_DESCRIPTION_LENGTH, TRUE, TRUE)

call_validate_description(description) ==
    /\ \E result \in {validate_description(description)} :
          resp' = [Reply("validate_description", 0, result.error)
                   EXCEPT !.args = <<description>>, !.target = <<result.value>>]
    /\ UNCHANGED <<inflight, db, logged, disk>>

\* pieces of the submitted texts
TextPieces ==
    {T_script \o <<">">>, T_script \o <<" ", "x", ">">>, <<"<", "S", "C", "R", "I", "P", "T", ">">>,
     T_end_script, T_iframe \o <<">">>, T_end_iframe, T_javascript,
     T_on \o <<"x">>, T_on, <<"=">>, <<" ">>, <<"x">>, <<">">>}

Joined(pieces) ==
    IF Len(pieces) = 1 THEN pieces[1]
    ELSE IF Len(pieces) = 2 THEN pieces[1] \o pieces[2]
    ELSE pieces[1] \o pieces[2] \o pieces[3]

SubmittedTexts ==
    {Joined(p) : p \in [1..1 -> TextPieces] \cup [1..2 -> TextPieces]}
    \cup {Joined(<<a, m, b>>) :
            a \in {T_script \o <<">">>, T_iframe \o <<">">>, T_on \o <<"x">>, <<"x">>},
            m \in {<<"x">>, <<" ">>, <<">">>},
            b \in {T_end_script, T_end_iframe, <<"=">>, T_javascript}}

NextText == \E description \in SubmittedTexts : call_validate_description(description)

SpecText == Init /\ [][NextText]_vars

\* an opening tag: its name and, after it, the first ">"
HasTag(s, open) ==
    \E i \in 1..Len(s) :
        LiteralAt(s, i, open) /\ \E j \in (i + Len(open))..Len(s) : s[j] = ">"

Dangerous(s) ==
    \/ HasTag(lower(s), T_script) \/ HasTag(lower(s), T_iframe)
    \/ search_javascript(lower(s)) \/ search_handler(lower(s))

\* C27: a description holding a script tag, a javascript: URI, an inline
\* on<word>= handler or an iframe tag, wherever it stands and whether or not
\* the tag is closed, is rejected as potentially dangerous content.
C27_DangerousRejected ==
    resp.op = "validate_description" /\ Dangerous(resp.args[1])
        => resp.status = "dangerous"

\* the same for the content the patterns name: closed elements, the URI
\* scheme and handlers
C27_ClosedElementsRejected ==
    (resp.op = "validate_description"
     /\ (\/ search_javascript(lower(resp.args[1]))
         \/ search_handler(lower(resp.args[1]))
         \/ search_element(lower(resp.args[1]), T_script, T_end_script)
         \/ search_element(lower(resp.args[1]), T_iframe, T_end_iframe)))
        => resp.status = "dangerous"


\* Coding, re-coding, reset and deletion of the transactions of two users.
NextCoding ==
    \/ \E u \in UserIds, inp \in {InRent, InLater} :
           handle_single_transaction_upload(u, inp, TRUE)
    \/ \E u \in UserIds, tid \in TxnIds, category \in {"Revenue", "Expense", "Other"} :
           code_transaction(u, tid, category)
    \/ \E u \in UserIds, tid \in TxnIds : reset_transaction_coding(u, tid)
    \/ \E u \in UserIds, tid \in TxnIds : delete_transaction(u, tid)
    \/ \E u \in UserIds, ids \in SUBSET TxnIds : mass_delete_transactions(u, ids)
    \/ \E u \in UserIds, ids \in SUBSET TxnIds : main_mass_delete_transactions(u, ids)

SpecCoding == Init /\ [][NextCoding]_vars

CodingInvariant ==
    /\ \A t \in transactions : Cardinality(CodesOf(t)) <= 1
    /\ \A c \in codes :
          /\ \E t \in transactions : t.id = c.transaction_id /\ t.user_id = c.user_id
          /\ c.category_name \in {"Revenue", "Expense"}

\* a coding request answered ok for a transaction that has a coding row keeps
\* that row, with the category asked for, and adds none
RecodeInPlace ==
    resp'.op = "code" /\ resp'.status = "ok"
    /\ (\E c \in codes : c.transaction_id = resp'.tid)
        => /\ {c.id : c \in codes'} = {c.id : c \in codes}
           /\ \A c \in codes : c.transaction_id = resp'.tid
                 => \E c2 \in codes' : c2.id = c.id /\ c2.transaction_id = c.transaction_id
                                       /\ c2.category_name \in {"Revenue", "Expense"}

\* C28: after any sequence of code, re-code, reset-coding, delete and
\* mass-delete requests every transaction has at most one coding row, every
\* coding row refers to an existing transaction of the same user and its
\* category is Revenue or Expense; re-coding changes the existing row.
C28_CodingInvariant == [](CodingInvariant) /\ [][RecodeInPlace]_vars

\* the transaction coded first has just been coded again, as Expense, while
\* the other coding row is there
C28_Witness ==
    /\ resp.op = "code" /\ resp.status = "ok"
    /\ \E c1 \in codes, c2 \in codes :
          /\ c1.id = 1 /\ c2.id = 2
          /\ c1.transaction_id = resp.tid /\ c1.category_name = "Expense"


\* a sync answered ok right after a sync of the same user answered ok, both
\* with the records recs
SecondRun(recs) ==
    /\ resp.op = "sync" /\ resp.status = "ok" /\ resp.rows = recs
    /\ resp'.op = "sync" /\ resp'.status = "ok" /\ resp'.rows = recs
    /\ resp'.uid = resp.uid

\* C29: when a sync is run twice in succession and the bank returns the same
\* records both times, the second run inserts no transaction: every record,
\* inflow or outflow, is recognised as a duplicate and counted as updated.
C29_SyncIdempotent ==
    [][\A recs \in SyncLists :
         SecondRun(recs) => /\ {t.id : t \in transactions'} = {t.id : t \in transactions}
                            /\ resp'.n = 0
                            /\ resp'.skipped = Len(recs)]_vars

\* the same for records that are all inflows
C29_InflowSyncIdempotent ==
    [][\A recs \in SyncLists :
         SecondRun(recs) /\ (\A i \in 1..Len(recs) : recs[i].amount > 0)
            => /\ {t.id : t \in transactions'} = {t.id : t \in transactions}
               /\ resp'.n = 0
               /\ resp'.skipped = Len(recs)]_vars


\* ---- routes/main.py handle_single_transaction_upload, served by two workers ----
\* The handler up to the answer of the duplicate query: the worker holds the
\* validated data and the verdict; nothing is written yet.
check_duplicate(w, u, inp) ==
    /\ u \in logged
    /\ inflight[w].pc = "idle"
    /\ inflight' = [inflight EXCEPT ![w] =
                      [pc |-> "checked", uid |-> u, input |-> inp,
                       valid |-> ValidData(inp, TRUE),
                       dup |-> is_duplicate(transactions, inp.date, inp.amount,
                                            inp.description, inp.payment_reference,
                                            inp.payee_name, 0, 80 * Pct, u)]]
    /\ UNCHANGED <<db, logged, disk, resp>>

\* The rest of the handler: the answer on invalid data or on a duplicate
\* verdict, else db.session.add and commit of the new row. No constraint of
\* the table and no lock stands between the query and the commit.
add_and_commit(w) ==
    /\ inflight[w].pc = "checked"
    /\ LET u == inflight[w].uid
           inp == inflight[w].input
           dup == inflight[w].dup
           r == [Reply("single_upload", u, "ok") EXCEPT !.input = inp]
       IN IF ~inflight[w].valid
          THEN /\ resp' = [r EXCEPT !.status = "invalid"]
               /\ UNCHANGED transactions
          ELSE IF dup[1]
          THEN /\ resp' = [r EXCEPT !.status = "duplicate", !.match = dup[2],
                                    !.confidence = dup[3]]
               /\ UNCHANGED transactions
          ELSE /\ NextId(transactions) <= MaxTxns
               /\ transactions' = transactions \cup {NewTransaction(u, inp, "unreconciled")}
               /\ resp' = [r EXCEPT !.tid = NextId(transactions)]
    /\ inflight' = [inflight EXCEPT ![w] = Idle]
    /\ UNCHANGED <<users, accounts, logged, codes, documents, links, settings, disk>>

\* Two workers serve the manual entries of two users.
NextRace ==
    \/ \E w \in Workers, u \in UserIds, inp \in {InRentRef, InLater, InBadAmount} :
           check_duplicate(w, u, inp)
    \/ \E w \in Workers : add_and_commit(w)

SpecRace == Init /\ [][NextRace]_vars

SameData(a, b) ==
    /\ a.user_id = b.user_id /\ a.date = b.date /\ a.amount = b.amount
    /\ a.description = b.description /\ a.payment_reference = b.payment_reference

\* C30: when two ingestion requests of one user with identical data are
\* handled concurrently by two workers, at most one transaction with that
\* data is stored once both have finished.
C30_AtMostOneStored ==
    (\A w \in Workers : inflight[w].pc = "idle")
        => \A a \in transactions, b \in transactions : SameData(a, b) => a = b

=============================================================================
